---- MODULE Spec2Model ----
(***************************************************************************)
(* Long-term learner memory and personalized primers of deen-backend.      *)
(*                                                                         *)
(* One user and one lesson are modelled.  The committed rows of the        *)
(* relational store are the variables; the SQLAlchemy session of a request *)
(* is a working copy inside the action, installed by commit and dropped by *)
(* rollback.  Times are whole hours.  Similarities, confidences and        *)
(* quality scores are integers in units of 1e-5 (0.6 is 60000).            *)
(*                                                                         *)
(* Spec       : analyze_interaction calls (extraction, duplicate filter,   *)
(*              append, consolidation) on one user's memory.               *)
(* PolicySpec : should_trigger_consolidation on profiles of chosen sizes.  *)
(* PrimerSpec : generate_personalized_primer against the cached row, the   *)
(*              lesson and the user's memory as they change.               *)
(* RaceSpec   : a primer generation split at its generation call, next to  *)
(*              memory updates that stamp and commit.                      *)
(* FaultSpec  : generate_personalized_primer with steps that raise.        *)
(* IndexSpec  : stores of note embeddings in sessions that commit or roll  *)
(*              back.                                                      *)
(* PairSpec   : concurrent primer generations for one (user, lesson), each *)
(*              split at its generation call and inside its cache write.   *)
(* ChunkSpec  : a lesson's content edited and its chunks regenerated.      *)
(* TwinSpec   : concurrent analyze_interaction calls, read to commit.      *)
(* ApplySpec  : one consolidation run step by step, with crashes.          *)
(* CtorSpec   : threads constructing MemoryConsolidator instances.         *)
(* StreamSpec : an elaboration stream and its memory-update thread.        *)
(***************************************************************************)
EXTENDS Integers, Sequences, FiniteSets, TLC

VARIABLES
    profile,         \* user_memory_profiles row of the user, or NoProfile
    events,          \* memory_events rows, in insertion order
    consolidations,  \* memory_consolidations rows, in insertion order
    nextId,          \* source of fresh uuid4 values
    now,             \* datetime.utcnow(), in hours
    ncalls,          \* analyze_interaction calls made so far
    last,            \* what the latest analyze_interaction was given and did
    decision,        \* what should_trigger_consolidation last answered
    lesson,          \* lessons row of the lesson, or NoLesson
    primer,          \* personalized_primers row of (user, lesson), or NoPrimer
    embeddings,      \* whether note_embeddings / lesson_chunk_embeddings rows exist
    tzAware,         \* whether TIMESTAMP(timezone=True) columns load offset-aware
    served,          \* what the latest generate_personalized_primer did
    inflight,        \* a generate_personalized_primer run awaiting its generation call
    memTxn,          \* a memory update stamped in its session and not yet committed
    memSeq,          \* how many memory updates have been committed
    rowReadSeq,      \* memSeq as it was when the signals of the cached row were read
    noteIndex,       \* committed note_embeddings rows of the user, in insertion order
    idxSession,      \* a session storing note embeddings, not yet committed
    idxLast,         \* what the latest note-embedding store or commit did
    runs,            \* concurrent generate_personalized_primer runs, each in its session
    writeOrder,      \* the runs in the order in which they attempted their cache write
    lessonContent,   \* lesson_content rows of the lesson, by order_position
    chunkTable,      \* committed lesson_chunk_embeddings rows of the lesson
    chunkLast,       \* what the latest regeneration of the lesson's chunks did
    twins,           \* concurrent analyze_interaction runs, each in its session
    consRun,         \* a consolidation run in progress, with its session
    sharedEmbedder,  \* MemoryConsolidator._shared_embedder: a handle, or 0 for None
    embedderLock,    \* the thread holding MemoryConsolidator._embedder_lock, or 0
    ctors,           \* threads inside MemoryConsolidator.__init__
    built,           \* how many embedding handles have been constructed
    stream,          \* an elaboration stream and what its caller received
    worker           \* the memory-update thread of that stream

memoryVars == <<profile, events, consolidations, nextId, ncalls, last>>

primerVars == <<lesson, primer, embeddings, tzAware, served>>

raceVars == <<inflight, memTxn, memSeq, rowReadSeq>>

indexVars == <<noteIndex, idxSession, idxLast>>

pairVars == <<runs, writeOrder>>

chunkVars == <<lessonContent, chunkTable, chunkLast>>

twinVars == <<twins>>

applyVars == <<consRun>>

handleVars == <<sharedEmbedder, embedderLock, ctors, built>>

streamVars == <<stream, worker>>

concVars == <<pairVars, chunkVars, twinVars, applyVars, handleVars, streamVars>>

auxVars == <<raceVars, indexVars, concVars>>

vars == <<memoryVars, now, decision, primerVars, auxVars>>

----------------------------------------------------------------------------
(* Bounds of the model *)

MaxCalls == 2
MaxClock == 200
ClockStep == 200
BigBatchLen == 15
PlanKeep == 10
MaxPolicyClock == 193
MaxPrimerClock == 240
MaxRaceClock == 3
MaxUpdates == 2
MaxIndexOps == 2
MaxChunks == 2

----------------------------------------------------------------------------
(* Program constants *)

SIMILARITY_THRESHOLD == 60000
MAX_NOTES_PER_CATEGORY == 15
TotalNotesTrigger == 50
ActiveUserNotes == 20
PeriodicDays == 7
HoursPerDay == 24
SIGNAL_QUALITY_THRESHOLD == 60000
NOTE_FILTER_THRESHOLD == 40000
RuleBasedThreshold == 50000
TtlDays == 5
MaxBullets == 3
MinBullets == 2

NoteTypeOrder ==
    <<"learning_notes", "knowledge_notes", "interest_notes",
      "behavior_notes", "preference_notes">>

NoteTypes == {NoteTypeOrder[i] : i \in 1..Len(NoteTypeOrder)}

NoProfile == [absent |-> TRUE]

HasProfile(p) == "absent" \notin DOMAIN p

NoLesson == [absent |-> TRUE]

NoPrimer == [absent |-> TRUE]

\* a row that a query returned, as opposed to None
Exists(row) == "absent" \notin DOMAIN row

\* no should_trigger_consolidation answer is at hand
NoDecision == [made |-> FALSE]

\* personalized_bullets = [], generated_at = None (-1), nothing personalized
FallbackResponse ==
    [personalized_bullets |-> <<>>, generated_at |-> -1, from_cache |-> FALSE,
     stale |-> FALSE, personalized_available |-> FALSE]

\* what a run of generate_personalized_primer went through: whether it
\* retrieved signals, the similarities of the notes it kept, the quality and
\* threshold it compared, whether it called the generator, the valid
\* bullets it got, whether it wrote the row
NoTrace ==
    [fetched |-> FALSE, assessed |-> FALSE, similarity_based |-> FALSE,
     kept_scores |-> <<>>,
     signal_quality |-> 0, threshold |-> 0, generated |-> FALSE,
     valid_bullets |-> 0, wrote |-> FALSE]

NotServed == [ran |-> FALSE]

\* no generate_personalized_primer run is awaiting its generation call
NoneInFlight == [running |-> FALSE]

\* no memory update is open in a session
NoTxn == [open |-> FALSE]

\* the concurrent requests for one (user_id, lesson_id)
Runs == {1, 2}

\* a request that has not started
IdleRun == [pc |-> "idle"]

\* no session is storing note embeddings
Threads == {1, 2, 3}

NoStream == [pc |-> "none"]

NoWorker ==
    [pc |-> "none", user_id |-> "none", session |-> "none", runs |-> 0,
     logged |-> 0]

NoSession == [open |-> FALSE]

\* no note-embedding store or commit has run yet
NoStore == [op |-> "none"]

\* nothing in flight, nothing counted, no note embedded
AuxInit ==
    /\ inflight = NoneInFlight
    /\ memTxn = NoTxn
    /\ memSeq = 0
    /\ rowReadSeq = 0
    /\ noteIndex = <<>>
    /\ idxSession = NoSession
    /\ idxLast = NoStore
    /\ runs = [r \in Runs |-> IdleRun]
    /\ writeOrder = <<>>
    /\ lessonContent = <<>>
    /\ chunkTable = <<>>
    /\ chunkLast = NoStore
    /\ twins = [r \in Runs |-> IdleRun]
    /\ consRun = [pc |-> "idle"]
    /\ sharedEmbedder = 0
    /\ embedderLock = 0
    /\ ctors = [t \in Threads |->
                  [pc |-> "start", embedder |-> 0, wrote |-> FALSE,
                   locked |-> FALSE]]
    /\ built = 0
    /\ stream = NoStream
    /\ worker = NoWorker

----------------------------------------------------------------------------
(* Generic helpers *)

Min(a, b) == IF a < b THEN a ELSE b

\* dict.get(key, default)
Get(d, k, default) == IF k \in DOMAIN d THEN d[k] ELSE default

RECURSIVE ConcatAll(_)
ConcatAll(ss) == IF ss = <<>> THEN <<>> ELSE Head(ss) \o ConcatAll(Tail(ss))

Ids(notes) == [i \in 1..Len(notes) |-> notes[i].id]

----------------------------------------------------------------------------
(* The embedder: cosine similarity of two note contents.  Contents are     *)
(* numbers; equal contents embed to the same vector.  Content 3 lies at    *)
(* exactly 0.6 from content 1, content 4 just above it and content 6 just  *)
(* below it; all other pairs are far apart.                                *)

CosineSimilarity(a, b) ==
    IF a = b THEN 100000
    ELSE IF {a, b} = {1, 3} THEN 60000
    ELSE IF {a, b} = {1, 4} THEN 60001
    ELSE IF {a, b} = {1, 6} THEN 59999
    ELSE 10000

----------------------------------------------------------------------------
(* Notes.  A candidate is a dict of the extraction call; id = 0 and        *)
(* created_at = -1 stand for an absent key, note_type = "" for an absent   *)
(* note_type key.                                                          *)

Cand(content, confidence, note_type) ==
    [id |-> 0, content |-> content, confidence |-> confidence,
     note_type |-> note_type, created_at |-> -1]

\* a candidate to which the extraction call gave an id of its own
SuppliedId(note, id) == [note EXCEPT !.id = id]

\* note.get("note_type", "learning_notes")
NoteTypeOf(note) ==
    IF note.note_type = "" THEN "learning_notes" ELSE note.note_type

Categories(p) == [t \in NoteTypes |-> p[t]]

\* _count_total_notes
CountTotalNotes(p) ==
    Len(p.learning_notes) + Len(p.knowledge_notes) + Len(p.interest_notes)
        + Len(p.behavior_notes) + Len(p.preference_notes)

(* MemoryProfileRepository.create with the column defaults. The JSON       *)
(* columns take any JSON value: unsized names the collections that hold    *)
(* a number instead of a list (such a collection reads as <<>> here).      *)
NewProfile(t) ==
    [learning_notes |-> <<>>, knowledge_notes |-> <<>>, interest_notes |-> <<>>,
     behavior_notes |-> <<>>, preference_notes |-> <<>>,
     unsized |-> {},
     total_interactions |-> 0, memory_version |-> 1,
     last_significant_update |-> t, updated_at |-> t]

\* len(memory_profile.<collection> or []) raises for a number
LenRaises(p) == p.unsized # {}

----------------------------------------------------------------------------
(* Duplicate Filter *)

\* getattr(memory_profile, note_type, []) or []
ExistingNotes(p, note) ==
    IF NoteTypeOf(note) \in NoteTypes THEN p[NoteTypeOf(note)] ELSE <<>>

\* the filter as it would be with the 0.8 default of
\* find_similar_notes_in_category in place of SIMILARITY_THRESHOLD
IsNoteDuplicate_Loose(content, existing) ==
    /\ existing # <<>>
    /\ \E i \in 1..Len(existing) :
          CosineSimilarity(existing[i].content, content) > 80000

IsNoteDuplicate(content, existing) ==
    /\ existing # <<>>
    /\ \E i \in 1..Len(existing) :
          CosineSimilarity(existing[i].content, content) > SIMILARITY_THRESHOLD

CheckForDuplicatesBeforeAdding(p, new_notes) ==
    SelectSeq(new_notes,
              LAMBDA n : ~IsNoteDuplicate(n.content, ExistingNotes(p, n)))

----------------------------------------------------------------------------
(* Profile Store append *)

\* the stamping loop of add_notes: the i-th note without an id gets a uuid
StampNotes(new_notes, t, idBase) ==
    [i \in 1..Len(new_notes) |->
        [new_notes[i] EXCEPT
            !.id = IF new_notes[i].id # 0 THEN new_notes[i].id ELSE idBase + i,
            !.created_at = IF new_notes[i].created_at # -1
                           THEN new_notes[i].created_at ELSE t]]

AddNotes(p, new_notes, t, idBase) ==
    LET stamped == StampNotes(new_notes, t, idBase)
        OfType(ty) == SelectSeq(stamped, LAMBDA n : NoteTypeOf(n) = ty)
    IN  [p EXCEPT
            !.learning_notes = @ \o OfType("learning_notes"),
            !.knowledge_notes = @ \o OfType("knowledge_notes"),
            !.interest_notes = @ \o OfType("interest_notes"),
            !.behavior_notes = @ \o OfType("behavior_notes"),
            !.preference_notes = @ \o OfType("preference_notes"),
            !.total_interactions = @ + 1,
            !.last_significant_update = t,
            !.updated_at = t]

----------------------------------------------------------------------------
(* Note Vector Index *)

\* compute_content_hash: SHA-256 of the content, taken as collision-free
ComputeContentHash(content) == <<"sha256", content>>

NoteEmbeddingRow(note_id, note_type, content_hash) ==
    [note_id |-> note_id, note_type |-> note_type,
     content_hash |-> content_hash]

(* A session over note_embeddings: the committed rows as the session has   *)
(* them (with its own changes), the rows it added and has not flushed      *)
(* (the sessions are made with autoflush off, so its queries do not see    *)
(* them), and the calls it made to the embedding provider.                 *)
IndexSession(table) ==
    [table |-> table, added |-> <<>>, calls |-> 0, skips |-> 0,
     raised |-> FALSE]

\* the row a query by (user_id, note_id) returns: position in table, 0 if none
ExistingEmbedding(table, note_id) ==
    IF \E i \in 1..Len(table) : table[i].note_id = note_id
    THEN CHOOSE i \in 1..Len(table) :
            /\ table[i].note_id = note_id
            /\ \A j \in 1..(i - 1) : table[j].note_id # note_id
    ELSE 0

\* store_note_embedding; precomputed says that the caller passed an embedding
StoreNoteEmbedding(s, note_id, note_type, content, precomputed, provider_up) ==
    LET content_hash == ComputeContentHash(content)
        existing == ExistingEmbedding(s.table, note_id)
        unchanged ==
            existing # 0 /\ s.table[existing].content_hash = content_hash
    IN  IF unchanged THEN [s EXCEPT !.skips = @ + 1]
        ELSE IF ~precomputed /\ ~provider_up
        THEN [s EXCEPT !.calls = @ + 1, !.raised = TRUE]
        ELSE LET called == [s EXCEPT !.calls = IF precomputed THEN @ ELSE @ + 1]
             IN  IF existing # 0
                 THEN [called EXCEPT
                          !.table[existing].content_hash = content_hash]
                 ELSE [called EXCEPT
                          !.added = Append(@, NoteEmbeddingRow(note_id,
                                                   note_type, content_hash))]

\* the hash the last note of notes with this id carries
LastHashOf(notes, note_id) ==
    LET of == SelectSeq(notes, LAMBDA n : n.id = note_id)
    IN  ComputeContentHash(of[Len(of)].content)

\* store_note_embeddings_batch; id 0 and content 0 stand for a missing id
\* and an empty content
StoreNoteEmbeddingsBatch(s, notes, note_type, provider_up) ==
    LET usable == SelectSeq(notes, LAMBDA n : n.id # 0 /\ n.content # 0)
        Has(n) == ExistingEmbedding(s.table, n.id) # 0
        Unchanged(n) ==
            /\ Has(n)
            /\ s.table[ExistingEmbedding(s.table, n.id)].content_hash
                  = ComputeContentHash(n.content)
        notes_to_embed == SelectSeq(usable, LAMBDA n : ~Unchanged(n))
        updates == SelectSeq(notes_to_embed, Has)
        creates == SelectSeq(notes_to_embed, LAMBDA n : ~Has(n))
        skipped == Len(usable) - Len(notes_to_embed)
    IN  IF notes_to_embed = <<>> THEN [s EXCEPT !.skips = @ + skipped]
        ELSE IF ~provider_up
        THEN [s EXCEPT !.calls = @ + 1, !.skips = @ + skipped,
                       !.raised = TRUE]
        ELSE [s EXCEPT
                !.calls = @ + 1,
                !.skips = @ + skipped,
                !.table =
                    [i \in 1..Len(s.table) |->
                        IF \E k \in 1..Len(updates) :
                              /\ updates[k].id = s.table[i].note_id
                              /\ ExistingEmbedding(s.table, updates[k].id) = i
                        THEN [s.table[i] EXCEPT
                                 !.content_hash =
                                     LastHashOf(updates, s.table[i].note_id)]
                        ELSE s.table[i]],
                !.added = @ \o
                    [k \in 1..Len(creates) |->
                        NoteEmbeddingRow(creates[k].id, note_type,
                            ComputeContentHash(creates[k].content))]]

\* the note types of notes, in the order of their first appearance
RECURSIVE TypesInOrder(_, _)
TypesInOrder(notes, seen) ==
    IF notes = <<>> THEN <<>>
    ELSE IF NoteTypeOf(Head(notes)) \in seen
    THEN TypesInOrder(Tail(notes), seen)
    ELSE <<NoteTypeOf(Head(notes))>>
            \o TypesInOrder(Tail(notes), seen \cup {NoteTypeOf(Head(notes))})

\* the loop of _generate_note_embeddings: one batch per note type, a batch
\* that raises is logged and the loop goes on
RECURSIVE StoreByType(_, _, _, _)
StoreByType(s, types, notes, provider_up) ==
    IF types = <<>> THEN s
    ELSE LET r == StoreNoteEmbeddingsBatch(
                      [s EXCEPT !.raised = FALSE],
                      SelectSeq(notes, LAMBDA n : NoteTypeOf(n) = Head(types)),
                      Head(types), provider_up)
         IN  StoreByType([r EXCEPT !.raised = s.raised \/ r.raised],
                         Tail(types), notes, provider_up)

\* _generate_note_embeddings: raised tells that a failure was logged
GenerateNoteEmbeddings(s, notes, provider_up) ==
    StoreByType(s, TypesInOrder(notes, {}), notes, provider_up)

\* the table as it would be with a plain index on (user_id, note_id)
UniqueViolation_PlainIndex(rows) == FALSE

\* idx_note_embeddings_user_note, unique on (user_id, note_id)
UniqueViolation(rows) ==
    \E i, j \in 1..Len(rows) : i < j /\ rows[i].note_id = rows[j].note_id

\* what the flush of a commit writes to note_embeddings
FlushedIndex(s) == s.table \o s.added

(* The Note Vector Index on its own: sessions that store embeddings one    *)
(* note at a time or in batches and then commit or roll back.              *)

\* a note as the store operations read it: id 0 is a missing id, content 0
\* an empty content
IndexNote(id, content) == [id |-> id, content |-> content]

\* notes stored one at a time
IndexNotes == {IndexNote(1, 1), IndexNote(1, 2), IndexNote(2, 1)}

(* batches: one note, the same note with another content, two notes, one   *)
(* note id twice (with one content and with two), a note without id next   *)
(* to one without content                                                  *)
IndexBatches ==
    { <<IndexNote(1, 1)>>,
      <<IndexNote(1, 2)>>,
      <<IndexNote(1, 1), IndexNote(2, 2)>>,
      <<IndexNote(2, 1), IndexNote(2, 1)>>,
      <<IndexNote(1, 1), IndexNote(1, 2)>>,
      <<IndexNote(0, 1), IndexNote(2, 0)>> }

\* the session of the next store: the open one, or a new one
CurrentSession ==
    IF idxSession.open THEN idxSession.s ELSE IndexSession(noteIndex)

\* every note of notes has a row in table with the hash of its content
AllHashesKnown(notes, table) ==
    \A k \in 1..Len(notes) :
        \E i \in 1..Len(table) :
            /\ table[i].note_id = notes[k].id
            /\ table[i].content_hash = ComputeContentHash(notes[k].content)

\* what a store was given and did: whether each of its notes had a row with
\* its hash, the embedding calls it made, whether it changed the session
StoreRecord(op, notes, before, after) ==
    [op |-> op, known |-> AllHashesKnown(notes, before.table),
     calls |-> after.calls - before.calls,
     changed |-> after.table # before.table \/ after.added # before.added,
     raised |-> after.raised]

\* the stores the open session has made
SessionOps == IF idxSession.open THEN idxSession.ops ELSE 0

StoreOne(note, note_type, precomputed, provider_up) ==
    LET before == CurrentSession
        after == StoreNoteEmbedding(before, note.id, note_type, note.content,
                                    precomputed, provider_up)
    IN  /\ SessionOps < MaxIndexOps
        /\ idxSession' = [open |-> TRUE, ops |-> SessionOps + 1,
                          s |-> [after EXCEPT !.raised = FALSE]]
        /\ idxLast' = StoreRecord("single", <<note>>, before, after)
        /\ UNCHANGED noteIndex

StoreBatch(notes, note_type, provider_up) ==
    LET before == CurrentSession
        after == StoreNoteEmbeddingsBatch(before, notes, note_type, provider_up)
    IN  /\ SessionOps < MaxIndexOps
        /\ idxSession' = [open |-> TRUE, ops |-> SessionOps + 1,
                          s |-> [after EXCEPT !.raised = FALSE]]
        /\ idxLast' = StoreRecord("batch", notes, before, after)
        /\ UNCHANGED noteIndex

\* Session.commit: the flush is refused when two rows have one (user_id,
\* note_id), and nothing of the session is kept
CommitIndex ==
    /\ idxSession.open
    /\ LET rows == FlushedIndex(idxSession.s)
           rejected == UniqueViolation(rows)
       IN  /\ noteIndex' = IF rejected THEN noteIndex ELSE rows
           /\ idxLast' = [op |-> "commit", rejected |-> rejected,
                          added |-> idxSession.s.added,
                          skips |-> idxSession.s.skips]
    /\ idxSession' = NoSession

\* Session.rollback
RollbackIndex ==
    /\ idxSession.open
    /\ idxSession' = NoSession
    /\ idxLast' = [op |-> "rollback"]
    /\ UNCHANGED noteIndex

IndexStoresOne ==
    /\ \E note \in IndexNotes, note_type \in {"learning_notes"},
          precomputed \in BOOLEAN, provider_up \in BOOLEAN :
          StoreOne(note, note_type, precomputed, provider_up)
    /\ UNCHANGED <<memoryVars, now, decision, primerVars, raceVars, concVars>>

IndexStoresBatch ==
    /\ \E notes \in IndexBatches, note_type \in {"interest_notes"},
          provider_up \in BOOLEAN :
          StoreBatch(notes, note_type, provider_up)
    /\ UNCHANGED <<memoryVars, now, decision, primerVars, raceVars, concVars>>

IndexCommits ==
    /\ CommitIndex
    /\ UNCHANGED <<memoryVars, now, decision, primerVars, raceVars, concVars>>

IndexRollsBack ==
    /\ RollbackIndex
    /\ UNCHANGED <<memoryVars, now, decision, primerVars, raceVars, concVars>>

IndexNext ==
    IndexStoresOne \/ IndexStoresBatch \/ IndexCommits \/ IndexRollsBack

----------------------------------------------------------------------------
(* Consolidation Policy *)

\* MemoryConsolidationRepository.get_last: the row with the latest created_at
HasLastConsolidation(cons) == cons # <<>>

LastConsolidation(cons) ==
    CHOOSE c \in {cons[i] : i \in 1..Len(cons)} :
        \A j \in 1..Len(cons) : cons[j].created_at <= c.created_at

\* (datetime.utcnow() - created_at).days
DaysSince(t, created_at) == (t - created_at) \div HoursPerDay

\* the policy as it would be if a collection at the cap already counted
ShouldTriggerConsolidation_AtCap(p, cons, t) ==
    LET total_notes == CountTotalNotes(p) IN
    IF total_notes > TotalNotesTrigger THEN TRUE
    ELSE IF \E ty \in NoteTypes : Len(p[ty]) >= MAX_NOTES_PER_CATEGORY THEN TRUE
    ELSE IF HasLastConsolidation(cons)
         THEN DaysSince(t, LastConsolidation(cons).created_at) > PeriodicDays
              /\ total_notes > ActiveUserNotes
         ELSE total_notes > ActiveUserNotes

ShouldTriggerConsolidation(p, cons, t) ==
    LET total_notes == CountTotalNotes(p) IN
    IF total_notes > TotalNotesTrigger THEN TRUE
    ELSE IF \E ty \in NoteTypes : Len(p[ty]) > MAX_NOTES_PER_CATEGORY THEN TRUE
    ELSE IF HasLastConsolidation(cons)
         THEN DaysSince(t, LastConsolidation(cons).created_at) > PeriodicDays
              /\ total_notes > ActiveUserNotes
         ELSE total_notes > ActiveUserNotes

----------------------------------------------------------------------------
(* Consolidation Engine *)

\* the order of sorted(..., key=(confidence, created_at), reverse=True)
KeyLess(a, b) ==
    \/ a.confidence < b.confidence
    \/ a.confidence = b.confidence /\ a.created_at < b.created_at

RECURSIVE InsertByKeyDesc(_, _)
\* x goes behind every note whose key is not below its own (the sort is stable)
InsertByKeyDesc(sorted, x) ==
    IF sorted = <<>> THEN <<x>>
    ELSE IF KeyLess(Head(sorted), x) THEN <<x>> \o sorted
    ELSE <<Head(sorted)>> \o InsertByKeyDesc(Tail(sorted), x)

RECURSIVE SortedNotes(_)
SortedNotes(notes) ==
    IF notes = <<>> THEN <<>>
    ELSE InsertByKeyDesc(SortedNotes(SubSeq(notes, 1, Len(notes) - 1)),
                         notes[Len(notes)])

\* the fallback as it would be if it cut the collection without sorting it
KeptNotes_Unsorted(notes) ==
    IF Len(notes) > MAX_NOTES_PER_CATEGORY
    THEN SubSeq(notes, 1, MAX_NOTES_PER_CATEGORY)
    ELSE notes

KeptNotes(notes) ==
    IF Len(notes) > MAX_NOTES_PER_CATEGORY
    THEN SubSeq(SortedNotes(notes), 1, MAX_NOTES_PER_CATEGORY)
    ELSE notes

RemovedNotes(notes) ==
    IF Len(notes) > MAX_NOTES_PER_CATEGORY
    THEN SubSeq(SortedNotes(notes), MAX_NOTES_PER_CATEGORY + 1, Len(notes))
    ELSE <<>>

FallbackConsolidation(categories) ==
    [consolidated_memory |-> [ty \in NoteTypes |-> KeptNotes(categories[ty])],
     consolidated_notes |-> <<>>,
     removed_notes |->
        ConcatAll([i \in 1..Len(NoteTypeOrder) |->
                      Ids(RemovedNotes(categories[NoteTypeOrder[i]]))]),
     new_summary_notes |-> <<>>,
     reasoning |-> "fallback"]

(* What the generation call can answer to the consolidation prompt:        *)
(*   raise      the call fails (provider unreachable)                      *)
(*   text       text that json.loads rejects                               *)
(*   echo       a plan that returns the five collections unchanged         *)
(*   prune      a plan that keeps the first PlanKeep notes per collection  *)
(*   no_memory  a JSON object without the consolidated_memory key          *)
(*   no_learning a plan whose consolidated_memory lacks learning_notes     *)
PlanKinds ==
    {"raise", "text", "echo", "prune", "no_memory", "no_learning",
     "number_for_list"}

PrunedCategories(categories) ==
    [ty \in NoteTypes |->
        SubSeq(categories[ty], 1, Min(Len(categories[ty]), PlanKeep))]

PrunedIds(categories) ==
    ConcatAll([i \in 1..Len(NoteTypeOrder) |->
        Ids(SubSeq(categories[NoteTypeOrder[i]],
                   Min(Len(categories[NoteTypeOrder[i]]), PlanKeep) + 1,
                   Len(categories[NoteTypeOrder[i]])))])

PlanBody(kind, categories) ==
    CASE kind = "echo" ->
            [consolidated_memory |-> categories, consolidated_notes |-> <<>>,
             removed_notes |-> <<>>, new_summary_notes |-> <<>>,
             reasoning |-> "echo"]
      [] kind = "prune" ->
            [consolidated_memory |-> PrunedCategories(categories),
             consolidated_notes |-> <<>>,
             removed_notes |-> PrunedIds(categories),
             new_summary_notes |-> <<>>, reasoning |-> "prune"]
      [] kind = "no_memory" ->
            [consolidated_notes |-> <<>>, removed_notes |-> <<>>,
             new_summary_notes |-> <<>>, reasoning |-> "no_memory"]
      [] kind = "no_learning" ->
            [consolidated_memory |->
                [ty \in NoteTypes \ {"learning_notes"} |->
                    PrunedCategories(categories)[ty]],
             consolidated_notes |-> <<>>,
             removed_notes |-> PrunedIds(categories),
             new_summary_notes |-> <<>>, reasoning |-> "no_learning"]
      \* "learning_notes": 5 in an otherwise pruning plan
      [] kind = "number_for_list" ->
            [consolidated_memory |->
                [ty \in NoteTypes |->
                    IF ty = "learning_notes" THEN <<>>
                    ELSE PrunedCategories(categories)[ty]]
                @@ [unsized |-> {"learning_notes"}],
             consolidated_notes |-> <<>>,
             removed_notes |-> PrunedIds(categories),
             new_summary_notes |-> <<>>, reasoning |-> "number_for_list"]

\* _llm_consolidate_memory: the plan, or the exception that leaves it
LlmConsolidateMemory(categories, kind) ==
    CASE kind = "raise" -> [raised |-> TRUE, fallback |-> FALSE]
      [] kind = "text" ->
            [raised |-> FALSE, fallback |-> TRUE,
             plan |-> FallbackConsolidation(categories)]
      [] OTHER ->
            [raised |-> FALSE, fallback |-> FALSE,
             plan |-> PlanBody(kind, categories)]

\* the apply as it would be if it left the version counter alone
ApplyConsolidatedMemory_SameVersion(p, consolidated_memory, t) ==
    [p EXCEPT
        !.learning_notes = Get(consolidated_memory, "learning_notes", <<>>),
        !.knowledge_notes = Get(consolidated_memory, "knowledge_notes", <<>>),
        !.interest_notes = Get(consolidated_memory, "interest_notes", <<>>),
        !.behavior_notes = Get(consolidated_memory, "behavior_notes", <<>>),
        !.preference_notes = Get(consolidated_memory, "preference_notes", <<>>),
        !.unsized = Get(consolidated_memory, "unsized", {}),
        !.last_significant_update = t,
        !.updated_at = t]

ApplyConsolidatedMemory(p, consolidated_memory, t) ==
    [p EXCEPT
        !.learning_notes = Get(consolidated_memory, "learning_notes", <<>>),
        !.knowledge_notes = Get(consolidated_memory, "knowledge_notes", <<>>),
        !.interest_notes = Get(consolidated_memory, "interest_notes", <<>>),
        !.behavior_notes = Get(consolidated_memory, "behavior_notes", <<>>),
        !.preference_notes = Get(consolidated_memory, "preference_notes", <<>>),
        !.unsized = Get(consolidated_memory, "unsized", {}),
        !.memory_version = @ + 1,
        !.last_significant_update = t,
        !.updated_at = t]

\* _apply_consolidation_result
ApplyConsolidationResult(p, plan, t) ==
    ApplyConsolidatedMemory(p, Get(plan, "consolidated_memory", <<>>), t)

LogConsolidation(cons, consolidation_type, before, after, plan, t) ==
    Append(cons,
        [consolidation_type |-> consolidation_type,
         notes_before_count |-> before,
         notes_after_count |-> after,
         consolidated_notes |-> Get(plan, "consolidated_notes", <<>>),
         removed_notes |-> Get(plan, "removed_notes", <<>>),
         new_summary_notes |-> Get(plan, "new_summary_notes", <<>>),
         created_at |-> t])

NoRun ==
    [ran |-> FALSE, kind |-> "none", success |-> FALSE, fallback |-> FALSE,
     before |-> <<>>, after |-> <<>>, removed_notes |-> <<>>]

\* consolidate_user_memory on the session's profile: the session afterwards
\* and the run as the claims speak of it
ConsolidateUserMemory(p, cons, consolidation_type, kind, t) ==
    LET categories == Categories(p)
        notes_before == CountTotalNotes(p)
        answer == LlmConsolidateMemory(categories, kind)
    IN  IF answer.raised
        THEN [profile |-> p, consolidations |-> cons,
              run |-> [ran |-> TRUE, kind |-> kind, success |-> FALSE,
                       fallback |-> FALSE, before |-> categories,
                       after |-> categories, removed_notes |-> <<>>]]
        ELSE LET applied == ApplyConsolidationResult(p, answer.plan, t)
             IN  IF LenRaises(applied)
                 THEN \* _count_total_notes raises on the applied profile and
                      \* the except branch returns without undoing anything
                      [profile |-> applied, consolidations |-> cons,
                       run |-> [ran |-> TRUE, kind |-> kind, success |-> FALSE,
                                fallback |-> answer.fallback,
                                before |-> categories,
                                after |-> Categories(applied),
                                removed_notes |-> <<>>]]
                 ELSE
                 [profile |-> applied,
                  consolidations |->
                     LogConsolidation(cons, consolidation_type, notes_before,
                                      CountTotalNotes(applied), answer.plan, t),
                  run |-> [ran |-> TRUE, kind |-> kind, success |-> TRUE,
                           fallback |-> answer.fallback,
                           before |-> categories,
                           after |-> Categories(applied),
                           removed_notes |->
                              Get(answer.plan, "removed_notes", <<>>)]]

----------------------------------------------------------------------------
(* Interaction Analyzer *)

\* confidence of the i-th note of the large extraction batch
BatchConfidence(i) == ((i % 3) + 3) * 10000

\* BigBatchLen mutually dissimilar interest notes (contents 11, 12, ...)
BigBatch ==
    [i \in 1..BigBatchLen |-> Cand(10 + i, BatchConfidence(i), "interest_notes")]

(* new_notes lists the extraction call can return *)
Batches ==
    { <<Cand(1, 80000, "interest_notes"), Cand(2, 50000, "")>>,
      <<Cand(3, 30000, "interest_notes")>>,
      <<Cand(4, 30000, "interest_notes")>>,
      <<Cand(5, 90000, "bogus_notes")>>,
      <<Cand(1, 80000, "interest_notes"), Cand(4, 30000, "interest_notes")>>,
      <<SuppliedId(Cand(6, 70000, "knowledge_notes"), 7),
        SuppliedId(Cand(8, 70000, "preference_notes"), 7)>>,
      <<SuppliedId(Cand(6, 70000, "knowledge_notes"), 7)>>,
      <<SuppliedId(Cand(8, 70000, "preference_notes"), 7)>>,
      BigBatch \o <<Cand(2, 50000, "")>> }

(* What the extraction call can answer: the call fails, its text is not     *)
(* JSON, it is the JSON object {should_update_memory, reasoning,           *)
(* new_notes}, or it is JSON of another shape: not an object, or an        *)
(* object that asks for an update and lacks new_notes or reasoning.        *)
ExtractionOutcomes ==
    { [kind |-> "raise", should_update_memory |-> FALSE, new_notes |-> <<>>],
      [kind |-> "unparsed", should_update_memory |-> FALSE, new_notes |-> <<>>],
      [kind |-> "parsed", should_update_memory |-> FALSE, new_notes |-> <<>>],
      [kind |-> "not_object", should_update_memory |-> FALSE,
       new_notes |-> <<>>],
      [kind |-> "no_new_notes", should_update_memory |-> TRUE,
       new_notes |-> <<>>],
      [kind |-> "no_reasoning", should_update_memory |-> TRUE,
       new_notes |-> <<Cand(3, 30000, "interest_notes")>>] }
    \cup { [kind |-> "parsed", should_update_memory |-> TRUE, new_notes |-> b] :
             b \in Batches }

\* _analyze_universal_interaction, when the call itself did not raise
AnalyzeUniversalInteraction(extraction) ==
    IF extraction.kind = "unparsed"
    THEN [should_update_memory |-> FALSE, new_notes |-> <<>>]
    ELSE [should_update_memory |-> extraction.should_update_memory,
          new_notes |-> extraction.new_notes]

\* MemoryEventRepository.create: notes_added or [], processed_at None (-1)
CreateEvent(processing_status, t) ==
    [processing_status |-> processing_status, notes_added |-> <<>>,
     created_at |-> t, processed_at |-> -1]

\* update_status as it would be if it set everything but the status
UpdateStatus_KeepsStatus(event, status, notes_added, t) ==
    [event EXCEPT !.notes_added = notes_added, !.processed_at = t]

\* MemoryEventRepository.update_status
UpdateStatus(event, status, notes_added, t) ==
    [event EXCEPT !.processing_status = status,
                  !.notes_added = notes_added,
                  !.processed_at = t]

\* the status an Event is created with: pending at the start of the call,
\* failed in the except branch
CreatedStatus(status) == IF status = "failed" THEN "failed" ELSE "pending"

\* the Event a call commits: created, then updated to its final status
MemoryEvent(status, notes_added, t) ==
    UpdateStatus(CreateEvent(CreatedStatus(status), t), status, notes_added, t)

\* the statuses update_status found and left on that Event
StatusMove(status, notes_added, t) ==
    [from |-> CreateEvent(CreatedStatus(status), t).processing_status,
     to |-> MemoryEvent(status, notes_added, t).processing_status]

NoCall ==
    [outcome |-> "none", extraction |-> [kind |-> "none"], failed_at |-> "none",
     index_failed |-> FALSE, pre_index |-> <<>>, pre_cons |-> 0,
     lazy |-> FALSE, pre |-> NoProfile, pre_events |-> 0, survivors |-> <<>>,
     appended |-> NoProfile, result |-> [memory_updated |-> FALSE],
     status_moves |-> <<>>, cons |-> NoRun, at |-> 0]

\* the steps of a call that an exception can strike, given how far it gets
(* "index" is a failure of the embedding provider while the appended notes *)
(* are embedded for the Note Vector Index.                                 *)
ReachedFaults(update, appendReached) ==
    {"none", "commit"}
        \cup (IF update THEN {"dedup"} ELSE {})
        \cup (IF appendReached THEN {"append", "policy", "index"} ELSE {})

AnalyzeInteraction(extraction) ==
    /\ ncalls < MaxCalls
    /\ LET lazy == ~HasProfile(profile)
           \* get_or_create_profile, then the pending Event, both flushed only
           p0 == IF lazy THEN NewProfile(now) ELSE profile
           \* the call raised, analysis_result.get met a value that is no
           \* dict, or analysis_result["new_notes"] met no such key
           \* _format_memory_for_context takes len() of every collection
           contextRaises == LenRaises(p0)
           raisedExtraction ==
               \/ contextRaises
               \/ extraction.kind \in {"raise", "not_object", "no_new_notes"}
           analysis == AnalyzeUniversalInteraction(extraction)
           update == ~raisedExtraction /\ analysis.should_update_memory
           deduped ==
               IF update
               THEN CheckForDuplicatesBeforeAdding(p0, analysis.new_notes)
               ELSE <<>>
           added == IF deduped # <<>>
                    THEN AddNotes(p0, deduped, now, nextId) ELSE p0
           triggered ==
               /\ deduped # <<>>
               /\ ShouldTriggerConsolidation(added, consolidations, now)
       IN  \E reached \in (IF contextRaises THEN {"context"}
                           ELSE IF raisedExtraction THEN {"extraction"}
                           ELSE ReachedFaults(update, deduped # <<>>)) :
           LET \* the embeddings add_notes stores, in the session
               indexed ==
                   IF deduped # <<>> /\ reached \in {"none", "index", "commit"}
                   THEN GenerateNoteEmbeddings(
                            IndexSession(noteIndex),
                            StampNotes(deduped, now, nextId),
                            reached # "index")
                   ELSE IndexSession(noteIndex)
               index_failed == reached = "index"
               \* the flush of the commit is refused by the unique index
               \* analysis_result["reasoning"] of update_event_status
               fault == IF reached \in {"none", "index"}
                        THEN IF extraction.kind = "no_reasoning"
                             THEN "reasoning"
                             ELSE IF UniqueViolation(FlushedIndex(indexed))
                             THEN "commit" ELSE "none"
                        ELSE reached
               filtered == IF fault = "dedup" THEN <<>> ELSE deduped
               appended == IF fault \in {"dedup", "append"} THEN p0 ELSE added
               trigger == triggered /\ fault \notin {"dedup", "append", "policy"}
               notes_added == IF update THEN filtered ELSE <<>>
               call == [extraction |-> extraction, failed_at |-> fault,
                        index_failed |-> index_failed,
                        pre_index |-> noteIndex,
                        pre_cons |-> Len(consolidations),
                        lazy |-> lazy, pre |-> profile,
                        pre_events |-> Len(events),
                        survivors |-> filtered, appended |-> appended,
                        at |-> now]
               \* of a call that failed, last keeps where it failed and what
               \* was committed before it
               failedCall ==
                   [extraction |-> [kind |-> IF extraction.kind = "parsed"
                                             THEN "answered"
                                             ELSE extraction.kind],
                    failed_at |-> fault, index_failed |-> index_failed,
                    pre_index |-> noteIndex,
                    pre_cons |-> Len(consolidations),
                    lazy |-> lazy, pre |-> profile,
                    pre_events |-> Len(events), survivors |-> <<>>,
                    appended |-> NoProfile, cons |-> NoRun, at |-> now]
           IN  \E kind \in (IF trigger THEN PlanKinds ELSE {"none"}) :
               LET c == IF trigger
                        THEN ConsolidateUserMemory(appended, consolidations,
                                                   "automatic", kind, now)
                        ELSE [profile |-> appended,
                              consolidations |-> consolidations, run |-> NoRun]
               IN  IF fault = "none"
                   THEN \* the single commit of the whole sequence
                        /\ profile' = c.profile
                        /\ events' =
                              Append(events,
                                     MemoryEvent("processed", notes_added, now))
                        /\ consolidations' = c.consolidations
                        /\ nextId' = nextId + Len(filtered)
                        /\ noteIndex' = FlushedIndex(indexed)
                        /\ last' = call @@
                              [outcome |-> "ok", cons |-> c.run,
                               status_moves |->
                                  <<StatusMove("processed", notes_added, now)>>,
                               result |->
                                  [memory_updated |->
                                      analysis.should_update_memory,
                                   notes_added |-> notes_added,
                                   error |-> FALSE,
                                   event_id |-> Len(events) + 1]]
                   ELSE IF lazy
                   THEN \* rollback also drops the profile row this call
                        \* created; the failed Event then refers to no row
                        \* and its flush raises out of the handler
                        /\ UNCHANGED <<profile, events, consolidations, nextId>>
                        /\ UNCHANGED noteIndex
                        /\ last' = failedCall @@
                              [outcome |-> "raised", status_moves |-> <<>>,
                               result |-> [memory_updated |-> FALSE]]
                   ELSE \* rollback, then the failed Event in its own
                        \* transaction
                        /\ events' =
                              Append(events, MemoryEvent("failed", <<>>, now))
                        /\ UNCHANGED <<profile, consolidations, nextId>>
                        /\ UNCHANGED noteIndex
                        /\ last' = failedCall @@
                              [outcome |-> "failed",
                               status_moves |->
                                  <<StatusMove("failed", <<>>, now)>>,
                               result |-> [memory_updated |-> FALSE,
                                           error |-> TRUE,
                                           event_id |-> Len(events) + 1]]
    /\ ncalls' = ncalls + 1
    /\ now' = now
    /\ UNCHANGED <<decision, primerVars>>
    /\ UNCHANGED <<raceVars, idxSession, idxLast, concVars>>

Interact == \E extraction \in ExtractionOutcomes : AnalyzeInteraction(extraction)

\* time passes between requests
Tick ==
    /\ now + ClockStep <= MaxClock
    /\ now' = now + ClockStep
    /\ UNCHANGED <<memoryVars, decision, primerVars>>
    /\ UNCHANGED auxVars

Init ==
    /\ profile = NoProfile
    /\ events = <<>>
    /\ consolidations = <<>>
    /\ nextId = 100
    /\ now = 0
    /\ ncalls = 0
    /\ last = NoCall
    /\ decision = NoDecision
    /\ lesson = NoLesson
    /\ primer = NoPrimer
    /\ embeddings = [notes |-> FALSE, chunks |-> FALSE]
    /\ tzAware = TRUE
    /\ served = NotServed
    /\ AuxInit

Next == Interact \/ Tick

Spec == Init /\ [][Next]_vars

\* the Note Vector Index of a user, starting empty
IndexSpec == Init /\ [][IndexNext]_vars

----------------------------------------------------------------------------
(* The Consolidation Policy on its own: should_trigger_consolidation asked *)
(* of profiles of chosen sizes, with and without an earlier consolidation  *)
(* (logged at hour 0), while the clock runs from just under the periodic   *)
(* interval to just over eight days.                                       *)

StoredNote(id, ty) ==
    [id |-> id, content |-> id, confidence |-> 50000, note_type |-> ty,
     created_at |-> 0]

NotesOfType(n, ty, idBase) == [i \in 1..n |-> StoredNote(idBase + i, ty)]

ProfileOfSizes(learning, knowledge, interest, behavior) ==
    [NewProfile(0) EXCEPT
        !.learning_notes = NotesOfType(learning, "learning_notes", 100),
        !.knowledge_notes = NotesOfType(knowledge, "knowledge_notes", 200),
        !.interest_notes = NotesOfType(interest, "interest_notes", 300),
        !.behavior_notes = NotesOfType(behavior, "behavior_notes", 400)]

HalfActive == ActiveUserNotes \div 2

PolicyStart == PeriodicDays * HoursPerDay - 1

EvaluatePolicy ==
    /\ decision' =
          [made |-> TRUE,
           value |-> ShouldTriggerConsolidation(profile, consolidations, now)]
    /\ UNCHANGED <<memoryVars, now, primerVars>>
    /\ UNCHANGED auxVars

\* an hour passes; the answer at hand is of the hour before
PolicyTick ==
    /\ now < MaxPolicyClock
    /\ now' = now + 1
    /\ decision' = NoDecision
    /\ UNCHANGED <<memoryVars, primerVars>>
    /\ UNCHANGED auxVars

PolicyInit ==
    /\ \E learning \in {0, MAX_NOTES_PER_CATEGORY, MAX_NOTES_PER_CATEGORY + 1},
          knowledge \in {0, HalfActive, MAX_NOTES_PER_CATEGORY},
          interest \in {0, HalfActive, HalfActive + 1, MAX_NOTES_PER_CATEGORY},
          behavior \in {0, HalfActive} :
          /\ profile = ProfileOfSizes(learning, knowledge, interest, behavior)
          /\ \E logged \in BOOLEAN :
                consolidations =
                    IF logged
                    THEN LogConsolidation(<<>>, "triggered",
                             learning + knowledge + interest + behavior,
                             learning + knowledge + interest + behavior,
                             [reasoning |-> "kept"], 0)
                    ELSE <<>>
    /\ events = <<>>
    /\ nextId = 500
    /\ now = PolicyStart
    /\ ncalls = 0
    /\ last = NoCall
    /\ decision = NoDecision
    /\ lesson = NoLesson
    /\ primer = NoPrimer
    /\ embeddings = [notes |-> FALSE, chunks |-> FALSE]
    /\ tzAware = TRUE
    /\ served = NotServed
    /\ AuxInit

PolicyNext == EvaluatePolicy \/ PolicyTick

PolicySpec == PolicyInit /\ [][PolicyNext]_vars

----------------------------------------------------------------------------
(* Primer Orchestrator *)

\* _get_memory_version: last_significant_update of the profile, None (-1)
\* without one
GetMemoryVersion(p) ==
    IF HasProfile(p) THEN p.last_significant_update ELSE -1

\* is_primer_fresh once its comparisons are between comparable datetimes
IsPrimerFresh_IgnoringLesson(row, l, user_memory_version, t) ==
    IF row.stale THEN FALSE
    ELSE IF row.ttl_expires_at < t THEN FALSE
    ELSE IF user_memory_version # -1
            /\ row.memory_version < user_memory_version THEN FALSE
    ELSE TRUE

IsPrimerFresh(row, l, user_memory_version, t) ==
    IF row.stale THEN FALSE
    ELSE IF row.ttl_expires_at < t THEN FALSE
    ELSE IF l.updated_at # -1 /\ row.lesson_version < l.updated_at THEN FALSE
    ELSE IF user_memory_version # -1
            /\ row.memory_version < user_memory_version THEN FALSE
    ELSE TRUE

\* is_primer_fresh as called: ttl_expires_at is a TIMESTAMP(timezone=True)
\* column and now is datetime.utcnow(); when the column loads offset-aware
\* the comparison of the two raises TypeError.  The stale test comes first.
FreshnessCheck(row, l, user_memory_version, t, aware) ==
    IF ~row.stale /\ aware THEN "raise"
    ELSE IF IsPrimerFresh(row, l, user_memory_version, t) THEN "fresh"
    ELSE "not_fresh"

\* _get_cached_primer
GetCachedPrimer(row, l, p, t, aware) ==
    IF ~Exists(row) THEN "miss"
    ELSE IF ~Exists(l) THEN "no_lesson"
    ELSE FreshnessCheck(row, l, GetMemoryVersion(p), t, aware)

\* _filter_notes_by_tags
FilterNotesByTags(notes, lesson_tags) ==
    IF notes = <<>> \/ lesson_tags = {} THEN <<>>
    ELSE SelectSeq(notes, LAMBDA n : Get(n, "tags", {}) \cap lesson_tags # {})

\* _fetch_signals_with_tags
FetchSignalsWithTags(p, lesson_tags) ==
    [available |-> TRUE,
     learning_notes |-> FilterNotesByTags(p.learning_notes, lesson_tags),
     interest_notes |-> FilterNotesByTags(p.interest_notes, lesson_tags),
     knowledge_notes |-> FilterNotesByTags(p.knowledge_notes, lesson_tags),
     preference_notes |-> FilterNotesByTags(p.preference_notes, lesson_tags),
     memory_version |-> p.last_significant_update,
     total_interactions |-> p.total_interactions,
     similarity_based |-> FALSE,
     avg_similarity |-> -1]

\* the largest cosine similarity of a note to any chunk of the lesson
MaxSimilarity(note, chunks) ==
    CHOOSE m \in {CosineSimilarity(note.content, chunks[i]) : i \in 1..Len(chunks)} :
        \A j \in 1..Len(chunks) : CosineSimilarity(note.content, chunks[j]) <= m

\* find_similar_notes_to_lesson: id and score of every note of the user whose
\* best chunk similarity reaches the threshold
FindSimilarNotesToLesson(p, l, threshold) ==
    LET all == ConcatAll([i \in 1..Len(NoteTypeOrder) |-> p[NoteTypeOrder[i]]])
        scored == [i \in 1..Len(all) |->
                      [note_id |-> all[i].id,
                       score |-> MaxSimilarity(all[i], l.chunks)]]
    IN  SelectSeq(scored, LAMBDA m : m.score >= threshold)

RECURSIVE SumScores(_)
SumScores(similar) ==
    IF similar = <<>> THEN 0 ELSE Head(similar).score + SumScores(Tail(similar))

\* calculate_signal_quality: the mean score, 0.0 of nothing
CalculateSignalQuality(similar) ==
    IF similar = <<>> THEN 0 ELSE SumScores(similar) \div Len(similar)

\* sort(key=similarity_score, reverse=True), stable
RECURSIVE InsertByScoreDesc(_, _)
InsertByScoreDesc(sorted, x) ==
    IF sorted = <<>> THEN <<x>>
    ELSE IF Head(sorted).similarity_score < x.similarity_score
         THEN <<x>> \o sorted
         ELSE <<Head(sorted)>> \o InsertByScoreDesc(Tail(sorted), x)

RECURSIVE SortByScoreDesc(_)
SortByScoreDesc(notes) ==
    IF notes = <<>> THEN <<>>
    ELSE InsertByScoreDesc(SortByScoreDesc(SubSeq(notes, 1, Len(notes) - 1)),
                           notes[Len(notes)])

\* _get_notes_by_ids
GetNotesByIds(notes, similar) ==
    LET ScoreOf(id) ==
            (CHOOSE m \in {similar[i] : i \in 1..Len(similar)} :
                m.note_id = id).score
        matched == SelectSeq(notes,
                       LAMBDA n : \E i \in 1..Len(similar) :
                                      similar[i].note_id = n.id)
    IN  SortByScoreDesc(
            [i \in 1..Len(matched) |->
                matched[i] @@ [similarity_score |-> ScoreOf(matched[i].id)]])

\* _fetch_signals_with_embeddings
FetchSignalsWithEmbeddings(p, l) ==
    LET similar == FindSimilarNotesToLesson(p, l, NOTE_FILTER_THRESHOLD) IN
    [available |-> TRUE,
     learning_notes |-> GetNotesByIds(p.learning_notes, similar),
     interest_notes |-> GetNotesByIds(p.interest_notes, similar),
     knowledge_notes |-> GetNotesByIds(p.knowledge_notes, similar),
     preference_notes |-> GetNotesByIds(p.preference_notes, similar),
     memory_version |-> p.last_significant_update,
     total_interactions |-> p.total_interactions,
     similarity_based |-> TRUE,
     avg_similarity |-> CalculateSignalQuality(similar)]

\* the similarity scores of the notes the signals hold, in similarity mode
KeptScores(signals) ==
    IF Get(signals, "similarity_based", FALSE)
    THEN LET kept == signals.learning_notes \o signals.interest_notes
                        \o signals.knowledge_notes \o signals.preference_notes
         IN  [i \in 1..Len(kept) |-> kept[i].similarity_score]
    ELSE <<>>

\* _fetch_user_signals
FetchUserSignals(p, l, emb) ==
    IF ~HasProfile(p) THEN [available |-> FALSE]
    ELSE IF emb.notes /\ emb.chunks THEN FetchSignalsWithEmbeddings(p, l)
    ELSE FetchSignalsWithTags(p, l.tags)

\* _assess_similarity_quality
AssessSimilarityQuality(signals) ==
    Min(signals.avg_similarity, SIGNAL_QUALITY_THRESHOLD)

\* _assess_rule_based_quality
AssessRuleBasedQuality(signals) ==
    LET counted == signals.learning_notes \o signals.interest_notes
                       \o signals.knowledge_notes
        total_notes == Len(counted)
        interactions == signals.total_interactions
        has_high_confidence ==
            \E i \in 1..Len(counted) : Get(counted[i], "confidence", 0) >= 70000
        score ==
            (IF total_notes >= 3 THEN 60000
             ELSE IF total_notes >= 1 THEN 30000 ELSE 0)
            + (IF interactions >= 10 THEN 20000
               ELSE IF interactions >= 5 THEN 10000 ELSE 0)
            + (IF has_high_confidence THEN 20000 ELSE 0)
    IN  Min(score, 100000)

\* _assess_signal_quality
AssessSignalQuality(signals) ==
    IF ~signals.available THEN 0
    ELSE IF signals.similarity_based THEN AssessSimilarityQuality(signals)
    ELSE AssessRuleBasedQuality(signals)

\* the gate as it would be if it turned away a quality equal to the threshold
InsufficientSignals_AtThreshold(signal_quality, threshold) ==
    signal_quality <= threshold

\* if signal_quality < threshold: return the fallback
InsufficientSignals(signal_quality, threshold) == signal_quality < threshold

\* What the generation call can answer: it raises, it answers text that is
\* no JSON, or it answers JSON whose personalized_bullets hold these strings
\* (an empty string is an invalid bullet).
Generations ==
    {[kind |-> "raise"], [kind |-> "text"],
     [kind |-> "json", bullets |-> <<"a", "">>],
     [kind |-> "json", bullets |-> <<"a", "", "b">>],
     [kind |-> "json", bullets |-> <<"a", "b", "c", "d">>]}

\* _parse_llm_response: the non-empty strings, the first three of them
ParseLlmResponse(generation) ==
    IF generation.kind # "json" THEN <<>>
    ELSE LET valid_bullets == SelectSeq(generation.bullets, LAMBDA b : b # "")
         IN  SubSeq(valid_bullets, 1, Min(Len(valid_bullets), MaxBullets))

\* calculate_ttl_expiration
CalculateTtlExpiration(generated_at) == generated_at + TtlDays * HoursPerDay

\* _cache_primer as it would be if it stamped memory_version with the time of
\* the write instead of the version its signals were read at
CachePrimer_StampedNow(l, bullets, signals, t) ==
    [personalized_bullets |-> bullets,
     generated_at |-> t,
     lesson_version |-> IF l.updated_at # -1 THEN l.updated_at ELSE t,
     memory_version |-> t,
     ttl_expires_at |-> t + TtlDays * HoursPerDay,
     stale |-> FALSE]

\* _cache_primer: create the row or update every column of the one there
\* is, committed by the CRUD call (inputs_hash is left out of the model)
CachePrimer(l, bullets, signals, t) ==
    [personalized_bullets |-> bullets,
     generated_at |-> t,
     lesson_version |-> IF l.updated_at # -1 THEN l.updated_at ELSE t,
     memory_version |-> Get(signals, "memory_version", t),
     ttl_expires_at |-> CalculateTtlExpiration(t),
     stale |-> FALSE]

\* _generate_new_primer, with an exception of the generation call caught by
\* generate_personalized_primer: the row it leaves, the result, the steps
GenerateNewPrimer(row, l, p, emb, generation, t) ==
    IF ~Exists(l)
    THEN [primer |-> row, result |-> FallbackResponse, trace |-> NoTrace]
    ELSE
    LET user_signals == FetchUserSignals(p, l, emb)
        signal_quality == AssessSignalQuality(user_signals)
        similarity_based == Get(user_signals, "similarity_based", FALSE)
        threshold == IF similarity_based THEN SIGNAL_QUALITY_THRESHOLD
                     ELSE RuleBasedThreshold
        assessed == [NoTrace EXCEPT !.fetched = TRUE, !.assessed = TRUE,
                                    !.similarity_based = similarity_based,
                                    !.kept_scores = KeptScores(user_signals),
                                    !.signal_quality = signal_quality,
                                    !.threshold = threshold]
        personalized_bullets == ParseLlmResponse(generation)
        generated == [assessed EXCEPT !.generated = TRUE,
                         !.valid_bullets = Len(personalized_bullets)]
    IN  IF InsufficientSignals(signal_quality, threshold)
        THEN [primer |-> row, result |-> FallbackResponse, trace |-> assessed]
        ELSE IF generation.kind = "raise"
        THEN [primer |-> row, result |-> FallbackResponse,
              trace |-> [assessed EXCEPT !.generated = TRUE]]
        ELSE IF Len(personalized_bullets) < MinBullets
        THEN [primer |-> row, result |-> FallbackResponse, trace |-> generated]
        ELSE [primer |-> CachePrimer(l, personalized_bullets, user_signals, t),
              result |->
                 [personalized_bullets |-> personalized_bullets,
                  generated_at |-> t, from_cache |-> FALSE, stale |-> FALSE,
                  personalized_available |-> TRUE],
              trace |-> [generated EXCEPT !.wrote = TRUE]]

\* generate_personalized_primer
GeneratePersonalizedPrimer(force_refresh, generation) ==
    LET cache_check ==
            IF force_refresh THEN "skipped"
            ELSE GetCachedPrimer(primer, lesson, profile, now, tzAware)
        run == [ran |-> TRUE, force_refresh |-> force_refresh,
                cache_check |-> cache_check, row_before |-> primer]
    IN  IF cache_check = "fresh"
        THEN /\ primer' = primer
             /\ served' = run @@
                   [result |->
                       [personalized_bullets |-> primer.personalized_bullets,
                        generated_at |-> primer.generated_at,
                        from_cache |-> TRUE, stale |-> FALSE,
                        personalized_available |-> TRUE],
                    trace |-> NoTrace]
        ELSE IF cache_check = "raise"
        THEN /\ primer' = primer
             /\ served' = run @@
                   [result |-> FallbackResponse, trace |-> NoTrace]
        ELSE LET new == GenerateNewPrimer(primer, lesson, profile, embeddings,
                                          generation, now)
             IN  /\ primer' = new.primer
                 /\ served' = run @@
                       [result |-> new.result, trace |-> new.trace]

(* The steps of generate_personalized_primer that can raise besides the    *)
(* freshness comparison: the query of the cache check, the profile query   *)
(* of signal retrieval, the embedding lookup, the generation call and the  *)
(* cache write.                                                            *)
PrimerFaults ==
    {"cache_check", "signals", "embedding_lookup", "generation", "cache_write"}

\* the handler as it would be if it caught only the errors of the generation
\* call and let those of the store escape
OnException_StoreErrorsEscape(fault) ==
    IF fault = "generation"
    THEN [raised |-> FALSE, result |-> FallbackResponse]
    ELSE [raised |-> TRUE]

\* except Exception: return self._fallback_response()
OnException(fault) == [raised |-> FALSE, result |-> FallbackResponse]

\* generate_personalized_primer when the step named by fault raises; a cache
\* write can fail before its commit or after it (in the refresh)
GeneratePrimerFailing(force_refresh, fault, generation, committed) ==
    LET cache_check ==
            IF force_refresh THEN "skipped"
            ELSE GetCachedPrimer(primer, lesson, profile, now, tzAware)
        new == GenerateNewPrimer(primer, lesson, profile, embeddings,
                                 generation, now)
        generating == cache_check \notin {"fresh", "raise"} /\ Exists(lesson)
        run == [ran |-> TRUE, force_refresh |-> force_refresh,
                cache_check |->
                    IF fault = "cache_check" THEN "raise" ELSE cache_check,
                row_before |-> primer, fault |-> fault]
    IN  /\ CASE fault = "cache_check" -> ~force_refresh
             [] fault = "signals" -> generating
             [] fault = "embedding_lookup" -> generating /\ HasProfile(profile)
             [] fault = "generation" ->
                    generating /\ new.trace.generated /\ generation.kind = "raise"
             [] fault = "cache_write" -> generating /\ new.trace.wrote
        /\ primer' = IF fault = "cache_write" /\ committed
                     THEN new.primer ELSE primer
        /\ served' = run @@ OnException(fault) @@
              [trace |->
                  CASE fault \in {"cache_check", "signals", "embedding_lookup"}
                          -> NoTrace
                    [] fault = "generation" -> new.trace
                    [] fault = "cache_write" ->
                          [new.trace EXCEPT !.wrote = committed]]

GeneratePrimerFails ==
    /\ \E force_refresh \in BOOLEAN, fault \in PrimerFaults,
          generation \in Generations, committed \in BOOLEAN :
          GeneratePrimerFailing(force_refresh, fault, generation, committed)
    /\ UNCHANGED <<memoryVars, now, decision, lesson, embeddings, tzAware>>
    /\ UNCHANGED auxVars

GeneratePrimer ==
    /\ \E force_refresh \in BOOLEAN, generation \in Generations :
          GeneratePersonalizedPrimer(force_refresh, generation)
    /\ UNCHANGED <<memoryVars, now, decision, lesson, embeddings, tzAware>>
    /\ UNCHANGED auxVars

\* a write to the lessons row: onupdate=func.now() stamps updated_at
UpdateLesson ==
    /\ Exists(lesson)
    /\ lesson' = [lesson EXCEPT !.updated_at = now]
    /\ served' = NotServed
    /\ UNCHANGED <<memoryVars, now, decision, primer, embeddings, tzAware>>
    /\ UNCHANGED auxVars

\* the row is marked stale by hand
MarkStale ==
    /\ Exists(primer)
    /\ ~primer.stale
    /\ primer' = [primer EXCEPT !.stale = TRUE]
    /\ served' = NotServed
    /\ UNCHANGED <<memoryVars, now, decision, lesson, embeddings, tzAware>>
    /\ UNCHANGED auxVars

\* touch_metadata, as add_notes and apply_consolidated_memory end
TouchMetadata ==
    /\ HasProfile(profile)
    /\ profile' = [profile EXCEPT !.last_significant_update = now,
                                  !.updated_at = now]
    /\ served' = NotServed
    /\ UNCHANGED <<events, consolidations, nextId, ncalls, last, now, decision,
                   lesson, primer, embeddings, tzAware>>
    /\ UNCHANGED auxVars

\* the clock moves by one time-to-live
PrimerStep == TtlDays * HoursPerDay

PrimerTick ==
    /\ now + PrimerStep <= MaxPrimerClock
    /\ now' = now + PrimerStep
    /\ served' = NotServed
    /\ UNCHANGED <<memoryVars, decision, lesson, primer, embeddings, tzAware>>
    /\ UNCHANGED auxVars

\* a stored note with the tags the extraction gave it
TaggedNote(id, content, confidence, ty, tags) ==
    [id |-> id, content |-> content, confidence |-> confidence,
     note_type |-> ty, created_at |-> 0, tags |-> tags]

LessonTags == {"tajweed"}

LessonChunks == <<1, 9>>

ProfileWith(learning, interest, knowledge, interactions) ==
    [NewProfile(0) EXCEPT !.learning_notes = learning,
                          !.interest_notes = interest,
                          !.knowledge_notes = knowledge,
                          !.total_interactions = interactions]

\* The profiles a primer is asked for: none; one note at exactly 0.6 from
\* the lesson, confident; one just below 0.6; two that average 0.6; three
\* of which one is the lesson's own words; one unrelated and untagged.
PrimerProfiles ==
    {NoProfile,
     ProfileWith(<<>>,
         <<TaggedNote(1, 3, 80000, "interest_notes", LessonTags)>>, <<>>, 1),
     ProfileWith(<<>>,
         <<TaggedNote(1, 6, 50000, "interest_notes", LessonTags)>>, <<>>, 5),
     ProfileWith(<<TaggedNote(1, 6, 50000, "learning_notes", LessonTags)>>,
         <<>>,
         <<TaggedNote(2, 4, 50000, "knowledge_notes", {"seerah"})>>, 10),
     ProfileWith(<<TaggedNote(1, 1, 50000, "learning_notes", LessonTags)>>,
         <<TaggedNote(2, 5, 50000, "interest_notes", LessonTags)>>,
         <<TaggedNote(3, 7, 50000, "knowledge_notes", LessonTags)>>, 0),
     ProfileWith(<<>>,
         <<StoredNote(1, "interest_notes")>>, <<>>, 12),
     \* one note just below 0.6 and a behavior note in the lesson's own words
     [ProfileWith(<<>>,
          <<TaggedNote(1, 6, 50000, "interest_notes", LessonTags)>>, <<>>, 5)
      EXCEPT !.behavior_notes =
          <<TaggedNote(2, 1, 50000, "behavior_notes", LessonTags)>>]}

PrimerInit ==
    /\ profile \in PrimerProfiles
    /\ lesson \in {NoLesson,
                   [updated_at |-> 0, tags |-> LessonTags,
                    chunks |-> LessonChunks]}
    /\ primer = NoPrimer
    /\ embeddings \in {e \in [notes : BOOLEAN, chunks : BOOLEAN] :
                          /\ e.notes => HasProfile(profile)
                          /\ e.chunks => Exists(lesson)}
    /\ tzAware \in BOOLEAN
    /\ served = NotServed
    /\ AuxInit
    /\ events = <<>>
    /\ consolidations = <<>>
    /\ nextId = 100
    /\ now = 0
    /\ ncalls = 0
    /\ last = NoCall
    /\ decision = NoDecision

PrimerNext ==
    GeneratePrimer \/ UpdateLesson \/ MarkStale \/ TouchMetadata \/ PrimerTick

PrimerSpec == PrimerInit /\ [][PrimerNext]_vars

(* The orchestrator with failing steps: runs that complete and runs in     *)
(* which a step raises, against a lesson that can change and a row that    *)
(* can be marked stale, at one instant.                                    *)
FaultNext ==
    GeneratePrimer \/ GeneratePrimerFails \/ UpdateLesson \/ MarkStale

FaultSpec == PrimerInit /\ [][FaultNext]_vars

----------------------------------------------------------------------------
(* A primer generation run interleaved with a memory update.  The run      *)
(* awaits its generation call between reading the signals and writing the  *)
(* row; the memory update stamps last_significant_update in its session    *)
(* and commits later.  Both can be overtaken by the other.                 *)

\* generate_personalized_primer up to the await of the generation call
BeginGenerate(force_refresh) ==
    /\ ~inflight.running
    /\ LET cache_check ==
               IF force_refresh THEN "skipped"
               ELSE GetCachedPrimer(primer, lesson, profile, now, tzAware)
           run == [ran |-> TRUE, force_refresh |-> force_refresh,
                   cache_check |-> cache_check, row_before |-> primer,
                   row_read_seq |-> rowReadSeq]
           user_signals == FetchUserSignals(profile, lesson, embeddings)
           signal_quality == AssessSignalQuality(user_signals)
           similarity_based == Get(user_signals, "similarity_based", FALSE)
           threshold == IF similarity_based THEN SIGNAL_QUALITY_THRESHOLD
                        ELSE RuleBasedThreshold
           assessed == [NoTrace EXCEPT !.fetched = TRUE, !.assessed = TRUE,
                                       !.similarity_based = similarity_based,
                                    !.kept_scores = KeptScores(user_signals),
                                       !.signal_quality = signal_quality,
                                       !.threshold = threshold]
       IN  IF cache_check = "fresh"
           THEN /\ served' = run @@
                      [result |->
                          [personalized_bullets |-> primer.personalized_bullets,
                           generated_at |-> primer.generated_at,
                           from_cache |-> TRUE, stale |-> FALSE,
                           personalized_available |-> TRUE],
                       trace |-> NoTrace]
                /\ inflight' = inflight
           ELSE IF cache_check = "raise" \/ ~Exists(lesson)
           THEN /\ served' = run @@
                      [result |-> FallbackResponse, trace |-> NoTrace]
                /\ inflight' = inflight
           ELSE IF InsufficientSignals(signal_quality, threshold)
           THEN /\ served' = run @@
                      [result |-> FallbackResponse, trace |-> assessed]
                /\ inflight' = inflight
           ELSE /\ served' = NotServed
                /\ inflight' =
                      [running |-> TRUE, force_refresh |-> force_refresh,
                       cache_check |-> cache_check, lesson |-> lesson,
                       user_signals |-> user_signals, trace |-> assessed,
                       read_seq |-> memSeq]
    /\ UNCHANGED <<memoryVars, now, decision, lesson, primer, embeddings,
                   tzAware, memTxn, memSeq, rowReadSeq, indexVars, concVars>>

\* generate_personalized_primer from the answer of the generation call on
FinishGenerate(generation) ==
    /\ inflight.running
    /\ LET personalized_bullets == ParseLlmResponse(generation)
           run == [ran |-> TRUE, force_refresh |-> inflight.force_refresh,
                   cache_check |-> inflight.cache_check,
                   row_before |-> primer, row_read_seq |-> rowReadSeq]
           generated == [inflight.trace EXCEPT !.generated = TRUE,
                            !.valid_bullets = Len(personalized_bullets)]
       IN  IF generation.kind = "raise"
              \/ Len(personalized_bullets) < MinBullets
           THEN /\ primer' = primer
                /\ rowReadSeq' = rowReadSeq
                /\ served' = run @@
                      [result |-> FallbackResponse, trace |-> generated]
           ELSE /\ primer' = CachePrimer(inflight.lesson, personalized_bullets,
                                         inflight.user_signals, now)
                /\ rowReadSeq' = inflight.read_seq
                /\ served' = run @@
                      [result |->
                          [personalized_bullets |-> personalized_bullets,
                           generated_at |-> now, from_cache |-> FALSE,
                           stale |-> FALSE, personalized_available |-> TRUE],
                       trace |-> [generated EXCEPT !.wrote = TRUE]]
    /\ inflight' = NoneInFlight
    /\ UNCHANGED <<memoryVars, now, decision, lesson, embeddings, tzAware,
                   memTxn, memSeq, indexVars, concVars>>

\* add_notes or apply_consolidated_memory in the session of a memory update:
\* last_significant_update = datetime.utcnow(), later than the stamp the row
\* carries
StampMemory ==
    /\ ~memTxn.open
    /\ memSeq < MaxUpdates
    /\ HasProfile(profile)
    /\ profile.last_significant_update < now
    /\ memTxn' = [open |-> TRUE, stamp |-> now]
    /\ UNCHANGED <<memoryVars, now, decision, primerVars, inflight, memSeq,
                   rowReadSeq, indexVars, concVars>>

\* the commit of the memory update
CommitMemory ==
    /\ memTxn.open
    /\ profile' = [profile EXCEPT !.last_significant_update = memTxn.stamp,
                                  !.updated_at = memTxn.stamp]
    /\ memTxn' = NoTxn
    /\ memSeq' = memSeq + 1
    /\ served' = NotServed
    /\ UNCHANGED <<events, consolidations, nextId, ncalls, last, now, decision,
                   lesson, primer, embeddings, tzAware, inflight, rowReadSeq,
                   indexVars, concVars>>

RaceTick ==
    /\ now < MaxRaceClock
    /\ now' = now + 1
    /\ served' = NotServed
    /\ UNCHANGED <<memoryVars, decision, lesson, primer, embeddings, tzAware,
                   raceVars, indexVars, concVars>>

RaceInit ==
    /\ profile \in PrimerProfiles \ {NoProfile}
    /\ lesson = [updated_at |-> 0, tags |-> LessonTags, chunks |-> LessonChunks]
    /\ primer = NoPrimer
    /\ embeddings \in {[notes |-> FALSE, chunks |-> FALSE],
                       [notes |-> TRUE, chunks |-> TRUE]}
    /\ tzAware \in BOOLEAN
    /\ served = NotServed
    /\ AuxInit
    /\ events = <<>>
    /\ consolidations = <<>>
    /\ nextId = 100
    /\ now = 0
    /\ ncalls = 0
    /\ last = NoCall
    /\ decision = NoDecision

RaceNext ==
    \/ \E force_refresh \in BOOLEAN : BeginGenerate(force_refresh)
    \/ \E generation \in Generations : FinishGenerate(generation)
    \/ StampMemory
    \/ CommitMemory
    \/ RaceTick

RaceSpec == RaceInit /\ [][RaceNext]_vars

(* Concurrent requests for one (user_id, lesson_id), each with its own     *)
(* session, possibly in different worker processes: a run is split at its  *)
(* generation call and, inside _cache_primer, between the SELECT of        *)
(* get_by_user_and_lesson and the commit of create / update.               *)

\* a run that ended, with what it returned
DoneRun(reached_write, bullets, result) ==
    [pc |-> "done", reached_write |-> reached_write, bullets |-> bullets,
     result |-> result]

GeneratedResult(bullets, t) ==
    [personalized_bullets |-> bullets, generated_at |-> t,
     from_cache |-> FALSE, stale |-> FALSE, personalized_available |-> TRUE]

\* generate_personalized_primer up to the generation call
PairBegin(r, force_refresh) ==
    /\ runs[r].pc = "idle"
    /\ LET cache_check ==
               IF force_refresh THEN "skipped"
               ELSE GetCachedPrimer(primer, lesson, profile, now, tzAware)
           user_signals == FetchUserSignals(profile, lesson, embeddings)
           signal_quality == AssessSignalQuality(user_signals)
           threshold == IF Get(user_signals, "similarity_based", FALSE)
                        THEN SIGNAL_QUALITY_THRESHOLD ELSE RuleBasedThreshold
       IN  runs' = [runs EXCEPT ![r] =
              IF cache_check = "fresh"
              THEN DoneRun(FALSE, <<>>,
                       [personalized_bullets |-> primer.personalized_bullets,
                        generated_at |-> primer.generated_at,
                        from_cache |-> TRUE, stale |-> FALSE,
                        personalized_available |-> TRUE])
              ELSE IF \/ cache_check = "raise"
                      \/ ~Exists(lesson)
                      \/ InsufficientSignals(signal_quality, threshold)
              THEN DoneRun(FALSE, <<>>, FallbackResponse)
              ELSE [pc |-> "awaiting", lesson |-> lesson,
                    user_signals |-> user_signals]]
    /\ UNCHANGED <<primer, writeOrder>>
    /\ UNCHANGED <<memoryVars, now, decision, lesson, embeddings, tzAware,
                   served, raceVars, indexVars, chunkVars, twinVars,
                   applyVars, handleVars, streamVars>>

\* the generation call answers: the bullets are parsed and counted
PairGenerated(r, generation) ==
    /\ runs[r].pc = "awaiting"
    /\ LET personalized_bullets == ParseLlmResponse(generation)
       IN  runs' = [runs EXCEPT ![r] =
              IF generation.kind = "raise"
                 \/ Len(personalized_bullets) < MinBullets
              THEN DoneRun(FALSE, <<>>, FallbackResponse)
              ELSE [pc |-> "writing", lesson |-> runs[r].lesson,
                    user_signals |-> runs[r].user_signals,
                    bullets |-> personalized_bullets]]
    /\ UNCHANGED <<primer, writeOrder>>
    /\ UNCHANGED <<memoryVars, now, decision, lesson, embeddings, tzAware,
                   served, raceVars, indexVars, chunkVars, twinVars,
                   applyVars, handleVars, streamVars>>

\* _cache_primer: get_by_user_and_lesson
PairSelect(r) ==
    /\ runs[r].pc = "writing"
    /\ runs' = [runs EXCEPT ![r] =
          [@ EXCEPT !.pc = "selected"] @@ [existing |-> Exists(primer)]]
    /\ UNCHANGED <<primer, writeOrder>>
    /\ UNCHANGED <<memoryVars, now, decision, lesson, embeddings, tzAware,
                   served, raceVars, indexVars, chunkVars, twinVars,
                   applyVars, handleVars, streamVars>>

(* _cache_primer: update of the row that was found, or create. The INSERT  *)
(* of a (user_id, lesson_id) that another run has inserted since the       *)
(* SELECT violates the primary key: commit raises and the except branch    *)
(* of generate_personalized_primer returns the fallback.                   *)
PairCommit(r) ==
    /\ runs[r].pc = "selected"
    /\ LET row == CachePrimer(runs[r].lesson, runs[r].bullets,
                              runs[r].user_signals, now)
           refused == ~runs[r].existing /\ Exists(primer)
       IN  /\ primer' = IF refused THEN primer ELSE row
           /\ runs' = [runs EXCEPT ![r] =
                 DoneRun(TRUE, runs[r].bullets,
                         IF refused THEN FallbackResponse
                         ELSE GeneratedResult(runs[r].bullets, now))]
    /\ writeOrder' = Append(writeOrder, r)
    /\ UNCHANGED <<memoryVars, now, decision, lesson, embeddings, tzAware,
                   served, raceVars, indexVars, chunkVars, twinVars,
                   applyVars, handleVars, streamVars>>

PairNext ==
    \/ \E r \in Runs, force_refresh \in BOOLEAN : PairBegin(r, force_refresh)
    \/ \E r \in Runs, generation \in Generations : PairGenerated(r, generation)
    \/ \E r \in Runs : PairSelect(r)
    \/ \E r \in Runs : PairCommit(r)

PairSpec == RaceInit /\ [][PairNext]_vars

----------------------------------------------------------------------------
(* Lesson Chunk Index: one lesson whose content sections are edited and    *)
(* whose chunk embeddings are regenerated. A title or body of 0 is a       *)
(* missing or empty text.                                                  *)

Section(order_position, title, content_body) ==
    [order_position |-> order_position, title |-> title,
     content_body |-> content_body]

\* "\n".join of the titles and bodies that are present
CombineLessonContentForHash(lesson_contents) ==
    ConcatAll([i \in 1..Len(lesson_contents) |->
        (IF lesson_contents[i].title # 0
         THEN <<lesson_contents[i].title>> ELSE <<>>)
        \o (IF lesson_contents[i].content_body # 0
            THEN <<lesson_contents[i].content_body>> ELSE <<>>)])

\* "Section: <title>" and the body, joined; <<>> is the empty string
FormatLessonContentForEmbedding(content) ==
    (IF content.title # 0 THEN <<"Section", content.title>> ELSE <<>>)
    \o (IF content.content_body # 0 THEN <<content.content_body>> ELSE <<>>)

LessonChunkRow(chunk_index, chunk_text, content_hash) ==
    [chunk_index |-> chunk_index, chunk_text |-> chunk_text,
     content_hash |-> content_hash, embedding |-> <<"vector", chunk_text>>]

(* store_lesson_chunk_embeddings on a session that sees the rows           *)
(* existing_chunks. rows is the lesson's chunk rows in the session when    *)
(* the call ends, embedded the number of texts sent to the provider,       *)
(* raised whether the provider's failure left the call.                    *)
StoreLessonChunkEmbeddings(lesson_contents, existing_chunks, provider_up) ==
    LET content_hash ==
            ComputeContentHash(CombineLessonContentForHash(lesson_contents))
        texts == [i \in 1..Len(lesson_contents) |->
                     FormatLessonContentForEmbedding(lesson_contents[i])]
        kept == SelectSeq([i \in 1..Len(lesson_contents) |-> i],
                          LAMBDA i : texts[i] # <<>>)
        chunks == [k \in 1..Len(kept) |->
                     LessonChunkRow(lesson_contents[kept[k]].order_position,
                                    texts[kept[k]], content_hash)]
        untouched == [rows |-> existing_chunks, embedded |-> 0,
                      raised |-> FALSE]
    IN  IF lesson_contents = <<>> THEN untouched
        ELSE IF existing_chunks # <<>>
                /\ existing_chunks[1].content_hash = content_hash
        THEN untouched
        ELSE IF chunks = <<>>
        THEN [rows |-> <<>>, embedded |-> 0, raised |-> FALSE]
        ELSE IF ~provider_up
        THEN [rows |-> <<>>, embedded |-> 0, raised |-> TRUE]
        ELSE [rows |-> chunks, embedded |-> Len(chunks), raised |-> FALSE]

\* idx_lesson_chunk_unique: two rows of the lesson with one chunk_index
ChunkUniqueViolation(rows) ==
    \E i, j \in 1..Len(rows) :
        i # j /\ rows[i].chunk_index = rows[j].chunk_index

\* the content a lesson can have: its sections ordered by position
LessonContents ==
    { <<>>,
      <<Section(0, 1, 1)>>,
      <<Section(0, 1, 2)>>,
      <<Section(0, 0, 0)>>,
      <<Section(0, 1, 1), Section(1, 0, 2)>>,
      <<Section(0, 1, 1), Section(0, 2, 2)>> }

\* the lesson_content rows of the lesson are rewritten
EditLessonContent(lesson_contents) ==
    /\ lesson_contents # lessonContent
    /\ lessonContent' = lesson_contents
    /\ UNCHANGED <<chunkTable, chunkLast>>
    /\ UNCHANGED <<memoryVars, now, decision, primerVars, raceVars,
                   indexVars, pairVars, twinVars, applyVars,
                   handleVars, streamVars>>

(* _update_lesson_embedding: store_lesson_chunk_embeddings and commit;     *)
(* an exception of either is logged and the session's work is dropped.     *)
UpdateLessonEmbedding(provider_up) ==
    LET stored == StoreLessonChunkEmbeddings(lessonContent, chunkTable,
                                             provider_up)
        committed == ~stored.raised /\ ~ChunkUniqueViolation(stored.rows)
    IN  /\ chunkTable' = IF committed THEN stored.rows ELSE chunkTable
        /\ chunkLast' = [op |-> "store", content |-> lessonContent,
                         before |-> chunkTable, after |-> stored.rows,
                         embedded |-> stored.embedded,
                         completed |-> ~stored.raised,
                         committed |-> committed]
        /\ UNCHANGED lessonContent
        /\ UNCHANGED <<memoryVars, now, decision, primerVars, raceVars,
                       indexVars, pairVars, twinVars, applyVars,
                   handleVars, streamVars>>

ChunkNext ==
    \/ \E lesson_contents \in LessonContents :
          EditLessonContent(lesson_contents)
    \/ \E provider_up \in BOOLEAN : UpdateLessonEmbedding(provider_up)

ChunkSpec == Init /\ [][ChunkNext]_vars

----------------------------------------------------------------------------
(* Concurrent analyze_interaction runs for one user, each with its own     *)
(* session: a run is split between its read of the profile row and the     *)
(* single commit at its end. The batches are small enough that no          *)
(* consolidation is triggered.                                             *)

TwinBatches ==
    { <<Cand(3, 30000, "interest_notes")>>,
      <<Cand(4, 30000, "interest_notes")>>,
      <<Cand(2, 50000, "")>>,
      <<Cand(1, 80000, "interest_notes"), Cand(2, 50000, "")>> }

TwinProfiles ==
    { NewProfile(0),
      [NewProfile(0) EXCEPT
          !.interest_notes = <<StoredNote(1, "interest_notes")>>,
          !.total_interactions = 1] }

\* the flush as it would be if it appended to the committed collections
FlushProfile_Merged(committed, read, copy) ==
    [k \in DOMAIN committed |->
        IF k \in NoteTypes
        THEN committed[k] \o SubSeq(copy[k], Len(read[k]) + 1, Len(copy[k]))
        ELSE IF copy[k] # read[k] THEN copy[k] ELSE committed[k]]

(* The UPDATE of the flush: the columns whose value in the session differs *)
(* from the value the session loaded are written with the session's value, *)
(* the others are left as committed.  No WHERE clause on a version.        *)
FlushProfile(committed, read, copy) ==
    [k \in DOMAIN committed |->
        IF copy[k] # read[k] THEN copy[k] ELSE committed[k]]

\* analyze_interaction from get_or_create_profile to the end of add_notes
TwinRead(r, new_notes) ==
    /\ twins[r].pc = "idle"
    /\ HasProfile(profile)
    /\ LET deduped == CheckForDuplicatesBeforeAdding(profile, new_notes)
           added == IF deduped # <<>>
                    THEN AddNotes(profile, deduped, now, nextId) ELSE profile
           indexed == IF deduped # <<>>
                      THEN GenerateNoteEmbeddings(
                               IndexSession(noteIndex),
                               StampNotes(deduped, now, nextId), TRUE)
                      ELSE IndexSession(noteIndex)
       IN  /\ ~ShouldTriggerConsolidation(added, consolidations, now)
           /\ twins' = [twins EXCEPT ![r] =
                 [pc |-> "ready", read |-> profile, copy |-> added,
                  notes_added |-> deduped,
                  stamped |-> StampNotes(deduped, now, nextId),
                  index_added |-> indexed.added]]
           /\ nextId' = nextId + Len(deduped)
    /\ UNCHANGED <<profile, events, consolidations, ncalls, last, noteIndex>>
    /\ UNCHANGED <<now, decision, primerVars, raceVars, idxSession, idxLast,
                   pairVars, chunkVars, applyVars, handleVars, streamVars>>

\* update_status of the Event and the commit of the run
TwinCommit(r) ==
    /\ twins[r].pc = "ready"
    /\ profile' = FlushProfile(profile, twins[r].read, twins[r].copy)
    /\ events' = Append(events,
                        MemoryEvent("processed", twins[r].notes_added, now))
    /\ noteIndex' = noteIndex \o twins[r].index_added
    /\ twins' = [twins EXCEPT ![r] =
          [pc |-> "done", read |-> twins[r].read, copy |-> twins[r].copy,
           stamped |-> twins[r].stamped, event_id |-> Len(events) + 1,
           result |-> [memory_updated |-> TRUE,
                       notes_added |-> twins[r].notes_added,
                       error |-> FALSE, event_id |-> Len(events) + 1]]]
    /\ UNCHANGED <<consolidations, nextId, ncalls, last>>
    /\ UNCHANGED <<now, decision, primerVars, raceVars, idxSession, idxLast,
                   pairVars, chunkVars, applyVars, handleVars, streamVars>>

TwinInit ==
    /\ profile \in TwinProfiles
    /\ events = <<>>
    /\ consolidations = <<>>
    /\ nextId = 100
    /\ now = 0
    /\ ncalls = 0
    /\ last = NoCall
    /\ decision = NoDecision
    /\ lesson = NoLesson
    /\ primer = NoPrimer
    /\ embeddings = [notes |-> FALSE, chunks |-> FALSE]
    /\ tzAware = TRUE
    /\ served = NotServed
    /\ AuxInit

TwinNext ==
    \/ \E r \in Runs, new_notes \in TwinBatches : TwinRead(r, new_notes)
    \/ \E r \in Runs : TwinCommit(r)

TwinSpec == TwinInit /\ [][TwinNext]_vars

----------------------------------------------------------------------------
(* One analyze_interaction call whose append triggers a consolidation run, *)
(* step by step in its session: the apply, the count and the log of the    *)
(* ConsolidationRecord, the caller's commit; the process can die between   *)
(* any two of them.                                                        *)

ApplyProfiles ==
    { ProfileOfSizes(MAX_NOTES_PER_CATEGORY, 0, 0, 0),
      ProfileOfSizes(MAX_NOTES_PER_CATEGORY + 1, 0, 0, 0),
      ProfileOfSizes(MAX_NOTES_PER_CATEGORY, 0, HalfActive, 0),
      ProfileOfSizes(MAX_NOTES_PER_CATEGORY, HalfActive, 0, 0) }

\* what the store keeps of a transaction that was flushed and never committed
Crashed_KeepsFlushed(committed, session) == session

\* what the store keeps of a transaction that was never committed
Crashed(committed, session) == committed

\* add_notes, should_trigger_consolidation, _llm_consolidate_memory and
\* _apply_consolidation_result, all on the session's profile
ConsApply(kind, consolidation_type) ==
    /\ consRun.pc = "idle"
    /\ HasProfile(profile)
    /\ LET added == AddNotes(profile, <<Cand(2, 50000, "")>>, now, nextId)
           answer == LlmConsolidateMemory(Categories(added), kind)
       IN  /\ ShouldTriggerConsolidation(added, consolidations, now)
           /\ consRun' =
                 [pc |-> IF answer.raised THEN "returned" ELSE "applied",
                  consolidation_type |-> consolidation_type,
                  pre |-> profile, pre_cons |-> consolidations,
                  appended |-> added,
                  plan |-> IF answer.raised THEN <<>> ELSE answer.plan,
                  profile |-> IF answer.raised THEN added
                              ELSE ApplyConsolidationResult(added, answer.plan,
                                                            now),
                  consolidations |-> consolidations,
                  applied |-> ~answer.raised, success |-> FALSE]
    /\ UNCHANGED <<memoryVars, now, decision, primerVars, raceVars, indexVars,
                   pairVars, chunkVars, twinVars, handleVars, streamVars>>

\* _count_total_notes after the apply and log_consolidation with its flush;
\* an exception of the count is caught and success = False returned
ConsLog ==
    /\ consRun.pc = "applied"
    /\ consRun' =
          IF LenRaises(consRun.profile)
          THEN [consRun EXCEPT !.pc = "returned", !.success = FALSE]
          ELSE [consRun EXCEPT
                   !.pc = "returned", !.success = TRUE,
                   !.consolidations =
                       LogConsolidation(consRun.pre_cons,
                           consRun.consolidation_type,
                           CountTotalNotes(consRun.appended),
                           CountTotalNotes(consRun.profile),
                           consRun.plan, now)]
    /\ UNCHANGED <<memoryVars, now, decision, primerVars, raceVars, indexVars,
                   pairVars, chunkVars, twinVars, handleVars, streamVars>>

\* update_event_status and the single commit of analyze_interaction
ConsCommit ==
    /\ consRun.pc = "returned"
    /\ profile' = consRun.profile
    /\ consolidations' = consRun.consolidations
    /\ events' = Append(events,
                        MemoryEvent("processed", <<Cand(2, 50000, "")>>, now))
    /\ nextId' = nextId + 1
    /\ consRun' = [consRun EXCEPT !.pc = "committed"]
    /\ UNCHANGED <<ncalls, last>>
    /\ UNCHANGED <<now, decision, primerVars, raceVars, indexVars,
                   pairVars, chunkVars, twinVars, handleVars, streamVars>>

\* the process dies before the commit
ConsCrash ==
    /\ consRun.pc \in {"applied", "returned"}
    /\ profile' = Crashed(profile, consRun.profile)
    /\ consolidations' = Crashed(consolidations, consRun.consolidations)
    /\ consRun' = [consRun EXCEPT !.pc = "crashed"] @@ [at |-> consRun.pc]
    /\ UNCHANGED <<events, nextId, ncalls, last>>
    /\ UNCHANGED <<now, decision, primerVars, raceVars, indexVars,
                   pairVars, chunkVars, twinVars, handleVars, streamVars>>

ApplyInit ==
    /\ profile \in ApplyProfiles
    /\ events = <<>>
    /\ consolidations = <<>>
    /\ nextId = 500
    /\ now = 0
    /\ ncalls = 0
    /\ last = NoCall
    /\ decision = NoDecision
    /\ lesson = NoLesson
    /\ primer = NoPrimer
    /\ embeddings = [notes |-> FALSE, chunks |-> FALSE]
    /\ tzAware = TRUE
    /\ served = NotServed
    /\ AuxInit

ApplyNext ==
    \/ \E kind \in PlanKinds, consolidation_type \in {"automatic"} :
          ConsApply(kind, consolidation_type)
    \/ ConsLog
    \/ ConsCommit
    \/ ConsCrash

ApplySpec == ApplyInit /\ [][ApplyNext]_vars

----------------------------------------------------------------------------
(* MemoryConsolidator.__init__ run by several threads of one process: the  *)
(* unlocked test of the shared embedder, the lock, the test inside the     *)
(* lock, the construction, the store into the class attribute, and the     *)
(* read that gives the instance its embedder. Handles are numbered in the  *)
(* order of their construction; embedderLock is its holder, or 0.          *)

\* the test inside the lock as it would be if it always passed
SharedEmbedderIsNone_Unchecked(shared) == TRUE

\* MemoryConsolidator._shared_embedder is None
SharedEmbedderIsNone(shared) == shared = 0

\* the test outside the lock
CtorTest(t) ==
    /\ ctors[t].pc = "start"
    /\ ctors' = [ctors EXCEPT ![t].pc =
          IF SharedEmbedderIsNone(sharedEmbedder) THEN "acquire" ELSE "assign"]
    /\ UNCHANGED <<sharedEmbedder, embedderLock, built>>
    /\ UNCHANGED <<memoryVars, now, decision, primerVars, raceVars, indexVars,
                   pairVars, chunkVars, twinVars, applyVars, streamVars>>

\* with MemoryConsolidator._embedder_lock, and the test inside it
CtorAcquire(t) ==
    /\ ctors[t].pc = "acquire"
    /\ embedderLock = 0
    /\ embedderLock' = t
    /\ UNCHANGED <<sharedEmbedder, built>>
    /\ ctors' = [ctors EXCEPT ![t].pc =
          IF SharedEmbedderIsNone(sharedEmbedder) THEN "build" ELSE "release",
                              ![t].locked = TRUE]
    /\ UNCHANGED <<memoryVars, now, decision, primerVars, raceVars, indexVars,
                   pairVars, chunkVars, twinVars, applyVars, streamVars>>

\* SentenceTransformer('all-MiniLM-L6-v2') and the store of the handle
CtorBuild(t) ==
    /\ ctors[t].pc = "build"
    /\ built' = built + 1
    /\ sharedEmbedder' = built + 1
    /\ ctors' = [ctors EXCEPT ![t].pc = "release", ![t].wrote = TRUE]
    /\ UNCHANGED embedderLock
    /\ UNCHANGED <<memoryVars, now, decision, primerVars, raceVars, indexVars,
                   pairVars, chunkVars, twinVars, applyVars, streamVars>>

\* the end of the with block
CtorRelease(t) ==
    /\ ctors[t].pc = "release"
    /\ embedderLock' = 0
    /\ ctors' = [ctors EXCEPT ![t].pc = "assign"]
    /\ UNCHANGED <<sharedEmbedder, built>>
    /\ UNCHANGED <<memoryVars, now, decision, primerVars, raceVars, indexVars,
                   pairVars, chunkVars, twinVars, applyVars, streamVars>>

\* self.embedder = MemoryConsolidator._shared_embedder
CtorAssign(t) ==
    /\ ctors[t].pc = "assign"
    /\ ctors' = [ctors EXCEPT ![t].pc = "done",
                              ![t].embedder = sharedEmbedder]
    /\ UNCHANGED <<sharedEmbedder, embedderLock, built>>
    /\ UNCHANGED <<memoryVars, now, decision, primerVars, raceVars, indexVars,
                   pairVars, chunkVars, twinVars, applyVars, streamVars>>

CtorNext ==
    \/ \E t \in Threads : CtorTest(t)
    \/ \E t \in Threads : CtorAcquire(t)
    \/ \E t \in Threads : CtorBuild(t)
    \/ \E t \in Threads : CtorRelease(t)
    \/ \E t \in Threads : CtorAssign(t)

CtorSpec == Init /\ [][CtorNext]_vars

----------------------------------------------------------------------------
(* An elaboration request: the generator yields the chunks of the model's  *)
(* stream to its caller and, when the caller resumes it after the last     *)
(* chunk, starts the memory-update thread. user_id "none" is None.         *)

UserIds == {"none", "", "u1"}

Chunks == {"a", "b", "c"}

\* the test as it would be if the thread were started for every request
UserIdGiven_Always(user_id) == TRUE

\* if user_id:
UserIdGiven(user_id) == user_id \notin {"none", ""}

\* the call of generate_elaboration_response_stream and the first next()
StreamStart(user_id) ==
    /\ stream.pc = "none"
    /\ stream' = [pc |-> "streaming", user_id |-> user_id, received |-> <<>>,
                  ai_response_chunks |-> <<>>]
    /\ UNCHANGED worker
    /\ UNCHANGED <<memoryVars, now, decision, primerVars, raceVars, indexVars,
                   pairVars, chunkVars, twinVars, applyVars, handleVars>>

\* one turn of the for loop: the chunk is captured and yielded
StreamYield(content) ==
    /\ stream.pc = "streaming"
    /\ Len(stream.received) < MaxChunks
    /\ stream' = [stream EXCEPT
          !.received = Append(@, content),
          !.ai_response_chunks =
              IF UserIdGiven(stream.user_id) THEN Append(@, content) ELSE @]
    /\ UNCHANGED worker
    /\ UNCHANGED <<memoryVars, now, decision, primerVars, raceVars, indexVars,
                   pairVars, chunkVars, twinVars, applyVars, handleVars>>

\* chain.stream raises: the exception leaves the generator
StreamRaises ==
    /\ stream.pc = "streaming"
    /\ stream' = [stream EXCEPT !.pc = "raised"]
    /\ UNCHANGED worker
    /\ UNCHANGED <<memoryVars, now, decision, primerVars, raceVars, indexVars,
                   pairVars, chunkVars, twinVars, applyVars, handleVars>>

\* the caller stops iterating: the generator is closed at its yield
StreamClosed ==
    /\ stream.pc = "streaming"
    /\ stream.received # <<>>
    /\ stream' = [stream EXCEPT !.pc = "closed"]
    /\ UNCHANGED worker
    /\ UNCHANGED <<memoryVars, now, decision, primerVars, raceVars, indexVars,
                   pairVars, chunkVars, twinVars, applyVars, handleVars>>

\* the stream is exhausted: the code after the loop, thread.start() included
StreamEnds ==
    /\ stream.pc = "streaming"
    /\ stream' = [stream EXCEPT !.pc = "finished"]
    /\ worker' = IF UserIdGiven(stream.user_id)
                 THEN [pc |-> "started", user_id |-> stream.user_id,
                       session |-> "none", runs |-> 0, logged |-> 0]
                 ELSE worker
    /\ UNCHANGED <<memoryVars, now, decision, primerVars, raceVars, indexVars,
                   pairVars, chunkVars, twinVars, applyVars, handleVars>>

\* _update_hikmah_memory up to the agent: the imports and SessionLocal()
WorkerOpens(opened) ==
    /\ worker.pc = "started"
    /\ worker' = IF opened
                 THEN [worker EXCEPT !.pc = "analyzing", !.session = "open"]
                 ELSE [worker EXCEPT !.pc = "failed", !.logged = @ + 1]
    /\ UNCHANGED stream
    /\ UNCHANGED <<memoryVars, now, decision, primerVars, raceVars, indexVars,
                   pairVars, chunkVars, twinVars, applyVars, handleVars>>

\* analyze_hikmah_elaboration returns or raises, then the finally block
WorkerAnalyzes(raised) ==
    /\ worker.pc = "analyzing"
    /\ worker' = [worker EXCEPT
          !.pc = IF raised THEN "failed" ELSE "done",
          !.runs = @ + 1,
          !.logged = IF raised THEN @ + 1 ELSE @,
          !.session = "closed"]
    /\ UNCHANGED stream
    /\ UNCHANGED <<memoryVars, now, decision, primerVars, raceVars, indexVars,
                   pairVars, chunkVars, twinVars, applyVars, handleVars>>

WorkerStep ==
    \/ \E opened \in BOOLEAN : WorkerOpens(opened)
    \/ \E raised \in BOOLEAN : WorkerAnalyzes(raised)

StreamNext ==
    \/ \E user_id \in UserIds : StreamStart(user_id)
    \/ \E content \in Chunks : StreamYield(content)
    \/ StreamRaises
    \/ StreamClosed
    \/ StreamEnds
    \/ \E opened \in BOOLEAN : WorkerOpens(opened)
    \/ \E raised \in BOOLEAN : WorkerAnalyzes(raised)

\* a thread that was started is scheduled
StreamSpec == Init /\ [][StreamNext]_vars /\ WF_vars(WorkerStep)

----------------------------------------------------------------------------
(* Properties of the Interaction Analyzer and the Consolidation Engine,    *)
(* stated on the latest call (last) and the rows it committed.             *)

\* the five collections of a profile row, empty when the row does not exist
StoredNotes(p) ==
    IF HasProfile(p) THEN Categories(p) ELSE [ty \in NoteTypes |-> <<>>]

Contents(notes) == [i \in 1..Len(notes) |-> notes[i].content]

Called == last.outcome # "none"

Consolidated == Called /\ last.cons.ran /\ last.cons.success

\* C1: after any consolidate_user_memory run that returns success, whether
\* the plan came from the generation call or from the fallback, each of the
\* five collections holds at most 15 notes.
C1_CapAfterConsolidation ==
    (Consolidated /\ last.outcome = "ok") =>
        \A ty \in NoteTypes : Len(profile[ty]) <= MAX_NOTES_PER_CATEGORY

\* C3 as claimed: a candidate whose similarity to a note already stored in
\* its collection is greater than or equal to 0.6 is dropped.
C3_DroppedAtOrAboveThreshold ==
    Called =>
        \A ty \in NoteTypes :
            \A i \in 1..Len(StoredNotes(last.appended)[ty]) :
                \A j \in 1..Len(StoredNotes(last.pre)[ty]) :
                    i > Len(StoredNotes(last.pre)[ty]) =>
                        CosineSimilarity(last.appended[ty][i].content,
                                         last.pre[ty][j].content) < 60000

\* C3 as amended: a candidate whose similarity to a note already stored in
\* its collection is greater than 0.6 is dropped, so nothing the call
\* appends to a collection is that close to a note the collection held, and
\* the same content given twice is stored once.
C3_DroppedAboveThreshold ==
    Called =>
        \A ty \in NoteTypes :
            \A i \in 1..Len(StoredNotes(last.appended)[ty]) :
                \A j \in 1..Len(StoredNotes(last.pre)[ty]) :
                    i > Len(StoredNotes(last.pre)[ty]) =>
                        CosineSimilarity(last.appended[ty][i].content,
                                         last.pre[ty][j].content) <= 60000

\* the call was given a duplicate of a stored interest note and dropped it
C3_Witness ==
    /\ last.outcome = "ok"
    /\ last.extraction.should_update_memory
    /\ \E i \in 1..Len(last.extraction.new_notes) :
          /\ last.extraction.new_notes[i].note_type = "interest_notes"
          /\ \E j \in 1..Len(StoredNotes(last.pre).interest_notes) :
                CosineSimilarity(last.extraction.new_notes[i].content,
                                 last.pre.interest_notes[j].content) > 60000
    /\ last.survivors = <<>>
    /\ profile.interest_notes = last.pre.interest_notes

\* C4: an interaction with k >= 1 surviving candidates (2 of them from an
\* empty profile in particular) adds exactly k notes to the profile,
\* increases total_interactions by exactly 1 and commits exactly one
\* processed Event whose notes_added are those notes.
C4_AddsExactlyTheSurvivors ==
    (last.outcome = "ok" /\ last.survivors # <<>>) =>
        /\ CountTotalNotes(profile)
              = (IF last.lazy THEN 0 ELSE CountTotalNotes(last.pre))
                    + Len(last.survivors)
        /\ profile.total_interactions
              = (IF last.lazy THEN 0 ELSE last.pre.total_interactions) + 1
        /\ Len(events) = last.pre_events + 1
        /\ events[Len(events)].processing_status = "processed"
        /\ events[Len(events)].notes_added = last.survivors

\* C5: for every exception raised inside analyze_interaction after the
\* pending Event was created, for a user with an existing profile as well as
\* for one whose profile this call created, no note of the attempt is stored,
\* exactly one new Event with status failed is committed, and the call
\* returns the failure result instead of raising.
C5_FailureRolledBackAndAudited ==
    (Called /\ last.failed_at # "none") =>
        /\ last.outcome = "failed"
        /\ StoredNotes(profile) = StoredNotes(last.pre)
        /\ Len(events) = last.pre_events + 1
        /\ events[Len(events)].processing_status = "failed"
        /\ last.result.memory_updated = FALSE

\* the notes of a collection beyond the cap
Excess(notes) ==
    IF Len(notes) > MAX_NOTES_PER_CATEGORY
    THEN Len(notes) - MAX_NOTES_PER_CATEGORY ELSE 0

InSeq(x, seq) == \E i \in 1..Len(seq) : seq[i] = x

\* (confidence, created_at) of a ranks at least as high as that of b
RanksAtLeast(a, b) ==
    \/ a.confidence > b.confidence
    \/ a.confidence = b.confidence /\ a.created_at >= b.created_at

\* C8: the fallback consolidation keeps, of every collection holding more
\* than 15 notes, exactly the 15 that come first by (confidence descending,
\* created_at descending) and lists the ids of exactly the others in
\* removed_notes; a collection of 15 notes or fewer is left unchanged; the
\* ConsolidationRecord of a run that met a collection of 16 shows at least
\* one note removed.
C8_FallbackKeepsTopNotes ==
    (Called /\ last.cons.ran /\ last.cons.fallback) =>
        /\ \A ty \in NoteTypes :
              LET before == last.cons.before[ty]
                  after == last.cons.after[ty]
              IN  IF Len(before) > 15
                  THEN /\ Len(after) = 15
                       /\ \A i \in 1..Len(after) :
                             /\ InSeq(after[i], before)
                             /\ ~InSeq(after[i].id, last.cons.removed_notes)
                       /\ \A j \in 1..Len(before) :
                             ~InSeq(before[j], after) =>
                                /\ InSeq(before[j].id, last.cons.removed_notes)
                                /\ \A i \in 1..Len(after) :
                                      RanksAtLeast(after[i], before[j])
                  ELSE after = before
        /\ Len(last.cons.removed_notes)
              = Excess(last.cons.before.learning_notes)
                + Excess(last.cons.before.knowledge_notes)
                + Excess(last.cons.before.interest_notes)
                + Excess(last.cons.before.behavior_notes)
                + Excess(last.cons.before.preference_notes)
        /\ last.outcome = "ok" =>
              /\ \A ty \in NoteTypes : profile[ty] = last.cons.after[ty]
              /\ consolidations # <<>>
              /\ (\E ty \in NoteTypes : Len(last.cons.before[ty]) > 15) =>
                    consolidations[Len(consolidations)].notes_before_count
                      - consolidations[Len(consolidations)].notes_after_count >= 1

\* Scenario B: interest holds 16 notes, the plan is unparseable, the run is
\* committed with 15 interest notes and the learning notes untouched
C8_Witness ==
    /\ last.outcome = "ok"
    /\ last.cons.ran
    /\ last.cons.fallback
    /\ Len(last.cons.before.interest_notes) = 16
    /\ Len(profile.interest_notes) = 15
    /\ profile.learning_notes # <<>>
    /\ profile.learning_notes = last.cons.before.learning_notes

\* C9: whenever the generation call of a consolidation run is unreachable or
\* its output cannot be parsed into the plan shape (not JSON, or JSON
\* without consolidated_memory or without one of its five collections), the
\* run applies the deterministic fallback plan, so no collection is emptied
\* or replaced by a default.
C9_UnusablePlanFallsBack ==
    (Called /\ last.cons.ran
        /\ last.cons.kind \in {"raise", "text", "no_memory", "no_learning"}) =>
        /\ last.cons.success
        /\ \A ty \in NoteTypes :
              /\ last.cons.before[ty] # <<>> => last.cons.after[ty] # <<>>
              /\ Len(last.cons.before[ty]) <= 15 =>
                    last.cons.after[ty] = last.cons.before[ty]


----------------------------------------------------------------------------
(* Properties of the Consolidation Policy, stated on the answer at hand    *)
(* and the rows and the hour it was computed from.                         *)

TotalNotes == CountTotalNotes(profile)

SomeCollectionOver(n) == \E ty \in NoteTypes : Len(profile[ty]) > n

NeverConsolidated == consolidations = <<>>

HoursSinceLastConsolidation ==
    now - LastConsolidation(consolidations).created_at

\* C10, as stated: should_trigger_consolidation answers true exactly when
\* the total is over 50, or some collection is over 15, or there is no
\* earlier consolidation and the total is over 20, or more than 7 days
\* (any time longer than 168 hours) have passed since the latest
\* consolidation and the total is over 20.
C10_TriggersAfterSevenDays ==
    decision.made =>
        (decision.value <=>
            \/ TotalNotes > 50
            \/ SomeCollectionOver(15)
            \/ NeverConsolidated /\ TotalNotes > 20
            \/ /\ ~NeverConsolidated
               /\ HoursSinceLastConsolidation > 7 * 24
               /\ TotalNotes > 20)

\* C10, amended: the periodic condition counts whole days, so it needs at
\* least 8 full days (192 hours) since the latest consolidation; the answer
\* is false from 7 days up to, but not including, 8 days when only the
\* periodic condition could apply.
C10_TriggersAfterEightWholeDays ==
    decision.made =>
        (decision.value <=>
            \/ TotalNotes > 50
            \/ SomeCollectionOver(15)
            \/ NeverConsolidated /\ TotalNotes > 20
            \/ /\ ~NeverConsolidated
               /\ HoursSinceLastConsolidation >= 8 * 24
               /\ TotalNotes > 20)

\* the policy answered true on the periodic condition alone, at eight days
C10_Witness ==
    /\ decision.made
    /\ decision.value
    /\ ~NeverConsolidated
    /\ HoursSinceLastConsolidation = 8 * 24
    /\ TotalNotes = 21
    /\ ~SomeCollectionOver(15)



----------------------------------------------------------------------------
(* Properties of the Primer Orchestrator, stated on the latest run         *)
(* (served) and the rows and the hour it ran on: every other step of the   *)
(* model forgets the run.                                                  *)

ServedFromCache ==
    served.ran /\ ~served.force_refresh /\ served.result.from_cache

C6_RunsFollowTheStateMachine ==
    served.ran =>
        /\ served.cache_check # "fresh" =>
              served.trace.fetched /\ ~served.result.from_cache
        /\ primer # served.row_before =>
              /\ served.trace.signal_quality >= served.trace.threshold
              /\ served.trace.valid_bullets >= 2
              /\ served.result.personalized_available
        /\ (~served.result.from_cache /\ ~served.trace.wrote) =>
              /\ served.result = FallbackResponse
              /\ primer = served.row_before

\* C7: the quality gate is inclusive.  In similarity mode a quality of 0.6
\* or more goes on to generation and less does not; in rule-based mode the
\* same with 0.5.
C7_QualityGateIsInclusive ==
    (served.ran /\ served.trace.assessed) =>
        IF served.trace.similarity_based
        THEN served.trace.generated <=> served.trace.signal_quality >= 60000
        ELSE served.trace.generated <=> served.trace.signal_quality >= 50000

\* a run in similarity mode went on to generation on a quality of exactly 0.6
C7_Witness ==
    /\ served.ran
    /\ served.trace.assessed
    /\ served.trace.similarity_based
    /\ served.trace.signal_quality = 60000
    /\ served.trace.generated



----------------------------------------------------------------------------
(* Properties of primer generation interleaved with memory updates.        *)

----------------------------------------------------------------------------
(* Properties of the Primer Orchestrator under exceptions.                 *)

\* the step of the latest run that raised, "none" when none did
FaultOf(run) ==
    IF "fault" \in DOMAIN run THEN run.fault
    ELSE IF run.cache_check = "raise" THEN "freshness"
    ELSE "none"

\* C12: generate_personalized_primer never raises to its caller; an
\* exception in the cache check, signal retrieval, embedding lookup,
\* generation call or cache write yields the fallback result, with no
\* bullets, generated_at None, from_cache, stale and personalized_available
\* all false.
C12_ExceptionsYieldFallback ==
    (served.ran /\ FaultOf(served) # "none") =>
        /\ "result" \in DOMAIN served
        /\ served.result.personalized_bullets = <<>>
        /\ served.result.generated_at = -1
        /\ ~served.result.from_cache
        /\ ~served.result.stale
        /\ ~served.result.personalized_available

\* the cache write of a run that had passed the gate and got its bullets
\* raised, and the run returned the fallback
C12_Witness ==
    /\ served.ran
    /\ FaultOf(served) = "cache_write"
    /\ served.trace.generated
    /\ served.trace.valid_bullets >= 2
    /\ served.result = FallbackResponse


----------------------------------------------------------------------------
(* Properties of the Note Vector Index within analyze_interaction.         *)

\* C13: when the embedding provider fails during a note append, while the
\* appended notes are embedded for the Note Vector Index or while the
\* Duplicate Filter embeds, analyze_interaction ends with a failure result
\* and stores none of the append's notes; the failure is never absorbed so
\* that notes are stored and the Event marked processed without embeddings.
C13_EmbeddingFailurePropagates ==
    (Called /\ (last.index_failed \/ last.failed_at = "dedup")) =>
        /\ last.outcome = "failed"
        /\ last.result.error
        /\ StoredNotes(profile) = StoredNotes(last.pre)
        /\ events[Len(events)].processing_status # "processed"


\* the extraction call answered, and its answer is not the object
\* {should_update_memory, reasoning, new_notes}
Unparseable(call) ==
    call.extraction.kind \in
        {"unparsed", "not_object", "no_new_notes", "no_reasoning"}

\* C14: when the output of the extraction call cannot be parsed into
\* {should_update_memory, reasoning, new_notes}, analyze_interaction treats
\* it as no update: no note is added, the Event of the attempt is committed
\* with status processed, and the result has memory_updated false and an
\* empty notes_added.
C14_UnparseableIsNoUpdate ==
    (/\ Called
     /\ Unparseable(last)
     \* nothing else failed in the call
     /\ last.failed_at \in {"none", "extraction", "reasoning"}) =>
        /\ last.outcome = "ok"
        /\ StoredNotes(profile) = StoredNotes(last.pre)
        /\ Len(events) = last.pre_events + 1
        /\ events[Len(events)].processing_status = "processed"
        /\ ~last.result.memory_updated
        /\ last.result.notes_added = <<>>


----------------------------------------------------------------------------
(* Invariants of the stored notes.                                         *)

\* the notes of the five collections of a profile row, one after another
AllNotes(p) ==
    ConcatAll([i \in 1..Len(NoteTypeOrder) |-> p[NoteTypeOrder[i]]])

\* C15: after any sequence of analyze_interaction appends and consolidation
\* runs, no two notes of the profile, within one collection or across the
\* five collections, have the same id, whatever ids the extraction call or
\* the consolidation plan supplied.
C15_NoteIdsUnique ==
    HasProfile(profile) =>
        \A i, j \in 1..Len(AllNotes(profile)) :
            i # j => AllNotes(profile)[i].id # AllNotes(profile)[j].id

\* C16: every note stored in a collection carries a note_type equal to the
\* name of that collection, also after appends of candidates whose note_type
\* is missing or is none of the five names, and after a consolidation plan
\* was applied.
C16_NoteTypeMatchesCollection ==
    HasProfile(profile) =>
        \A t \in NoteTypes : \A i \in 1..Len(profile[t]) :
            profile[t][i].note_type = t


----------------------------------------------------------------------------
(* Properties of the Note Vector Index.                                    *)

\* C17: after any sequence of note-embedding stores (single or batched, a
\* note whose content changed, a batch holding one note id twice) there is
\* at most one note_embeddings row per (user_id, note_id), and storing a
\* note whose content hash equals that of its row makes no embedding call
\* and changes no row.
C17_OneRowPerNote ==
    /\ \A i, j \in 1..Len(noteIndex) :
          i # j => noteIndex[i].note_id # noteIndex[j].note_id
    /\ (idxLast.op \in {"single", "batch"} /\ idxLast.known) =>
          /\ idxLast.calls = 0
          /\ ~idxLast.changed

\* a session that stored a note again with the content its row has, then
\* stored one new note id twice, and whose commit was refused
C17_Witness ==
    /\ idxLast.op = "commit"
    /\ idxLast.rejected
    /\ idxLast.skips > 0
    /\ \E i, j \in 1..Len(idxLast.added) :
          i # j /\ idxLast.added[i].note_id = idxLast.added[j].note_id
    /\ noteIndex # <<>>


----------------------------------------------------------------------------
(* Properties of the Event log.                                            *)

\* the committed Events are kept as they are; at most one is added
EventsWrittenOnce ==
    /\ Len(events') \in {Len(events), Len(events) + 1}
    /\ \A i \in 1..Len(events) : events'[i] = events[i]

\* no committed Event is pending
NoPendingEvent ==
    \A i \in 1..Len(events) :
        events[i].processing_status \in {"processed", "failed"}

\* a status that update_status changed was pending and became final
MovesFromPending ==
    \A k \in 1..Len(last.status_moves) :
        LET move == last.status_moves[k]
        IN  move.from # move.to =>
                move.from = "pending" /\ move.to \in {"processed", "failed"}

\* C18: an Event is written once and afterwards changes only by its status
\* transition: processing_status moves only from pending to processed or
\* from pending to failed, never changes once it is processed or failed, and
\* no Event is left pending in the committed store after analyze_interaction
\* has returned.
C18_EventStatusTransitions ==
    /\ [](NoPendingEvent /\ MovesFromPending)
    /\ [][EventsWrittenOnce]_vars

\* a call that failed on an existing profile: its failed Event follows the
\* processed Event of the call before, which is as it was committed
C18_Witness ==
    /\ Called
    /\ last.outcome = "failed"
    /\ Len(events) = 2
    /\ events[1].processing_status = "processed"
    /\ events[2].processing_status = "failed"
    /\ last.status_moves # <<>>


----------------------------------------------------------------------------
(* Properties of a failed consolidation run.                               *)

\* C19: if a step of consolidate_user_memory before the audit write raises,
\* the collections, memory_version, last_significant_update and updated_at
\* of the profile are left as they were before the run, no
\* ConsolidationRecord is added, and the caller receives {success: false,
\* error} rather than an exception.
C19_FailedRunLeavesProfile ==
    (Called /\ last.outcome = "ok" /\ last.cons.ran /\ ~last.cons.success) =>
        /\ Categories(profile) = Categories(last.appended)
        /\ profile.unsized = last.appended.unsized
        /\ profile.memory_version = last.appended.memory_version
        /\ profile.last_significant_update
              = last.appended.last_significant_update
        /\ profile.updated_at = last.appended.updated_at
        /\ Len(consolidations) = last.pre_cons


----------------------------------------------------------------------------
(* Properties of the signal quality.                                       *)

RECURSIVE SumOf(_)
SumOf(scores) ==
    IF scores = <<>> THEN 0 ELSE Head(scores) + SumOf(Tail(scores))

\* the arithmetic mean, 0 of nothing
MeanOf(scores) ==
    IF scores = <<>> THEN 0 ELSE SumOf(scores) \div Len(scores)

\* C20: in similarity mode the signal quality used by the quality gate is
\* the arithmetic mean of the maximum similarities of exactly the notes kept
\* for the primer (the notes of the profile whose maximum similarity over
\* the chunks of the lesson reaches the note-filter threshold), and 0 when
\* no note is kept.
C20_QualityIsMeanOfKeptNotes ==
    (served.ran /\ served.trace.assessed /\ served.trace.similarity_based) =>
        served.trace.signal_quality = MeanOf(served.trace.kept_scores)


----------------------------------------------------------------------------
(* Properties of concurrent primer generation.                             *)

\* the run that attempted the latest cache write
LastWriter == writeOrder[Len(writeOrder)]

\* C21: under every interleaving of concurrent generate_personalized_primer
\* runs for one (user_id, lesson_id) the store holds at most one row for the
\* pair, every run that reaches the cache write completes it and returns its
\* generated primer, and the row ends with the content written by the last
\* writer.
C21_LastWriteWins ==
    /\ \A r \in Runs :
          (runs[r].pc = "done" /\ runs[r].reached_write) =>
              /\ runs[r].result.personalized_available
              /\ runs[r].result.personalized_bullets = runs[r].bullets
    /\ writeOrder # <<>> =>
          /\ Exists(primer)
          /\ primer.personalized_bullets = runs[LastWriter].bullets


----------------------------------------------------------------------------
(* Properties of the Lesson Chunk Index.                                   *)

HashOfContent(lesson_contents) ==
    ComputeContentHash(CombineLessonContentForHash(lesson_contents))

\* C22: after store_lesson_chunk_embeddings completes, every chunk row of
\* the lesson carries the hash of the lesson's current concatenated content;
\* when that hash is unchanged since the previous run no chunk row is
\* deleted, created or re-embedded, and when it changed all prior rows are
\* replaced together by rows stamped with the new hash.
C22_ChunksCarryCurrentHash ==
    (chunkLast.op = "store" /\ chunkLast.completed) =>
        LET h == HashOfContent(chunkLast.content)
            before == chunkLast.before
            after == chunkLast.after
        IN  /\ \A i \in 1..Len(after) : after[i].content_hash = h
            /\ (before # <<>> /\ before[1].content_hash = h) =>
                  (after = before /\ chunkLast.embedded = 0)
            /\ (before # <<>> /\ before[1].content_hash # h) =>
                  \A i \in 1..Len(before) :
                      \A j \in 1..Len(after) : after[j] # before[i]


----------------------------------------------------------------------------
(* Properties of concurrent analyze_interaction runs.                      *)

\* the collections to which run r appended
ChangedBy(r) == {ty \in NoteTypes : twins[r].copy[ty] # twins[r].read[ty]}

\* run r was the last to commit a change of collection ty
LastToChange(r, ty) ==
    /\ twins[r].pc = "done"
    /\ ty \in ChangedBy(r)
    /\ \A s \in Runs \ {r} :
          (twins[s].pc = "done" /\ ty \in ChangedBy(s)) =>
              twins[s].event_id < twins[r].event_id

\* C23: each of two concurrent analyze_interaction runs reads the whole note
\* collection, appends to its copy and writes the whole collection back with
\* no lock or version check: the committed collection is the copy of the
\* run that committed last, whatever was committed since that run read it.
C23_WholeCollectionWrittenBack ==
    \A r \in Runs : \A ty \in NoteTypes :
        LastToChange(r, ty) => profile[ty] = twins[r].copy[ty]

\* both runs returned memory_updated = true and recorded a processed Event,
\* and a note that one of them appended is in no collection of the profile
C23_Witness ==
    /\ \A r \in Runs :
          /\ twins[r].pc = "done"
          /\ twins[r].result.memory_updated
          /\ twins[r].result.notes_added # <<>>
          /\ events[twins[r].event_id].processing_status = "processed"
    /\ \E r \in Runs : \E i \in 1..Len(twins[r].stamped) :
          \A ty \in NoteTypes : \A j \in 1..Len(profile[ty]) :
              profile[ty][j].id # twins[r].stamped[i].id

----------------------------------------------------------------------------
(* Properties of the memory version and the consolidation history.         *)

\* memory_version of the profile the latest call worked on, before the call
VersionBefore == IF last.lazy THEN NewProfile(0).memory_version
                 ELSE last.pre.memory_version

\* the latest call committed a consolidation run that returned success
CommittedRun == Consolidated /\ last.outcome = "ok"

RunCounted ==
    CommittedRun =>
        /\ profile.memory_version = VersionBefore + 1
        /\ Len(consolidations) = last.pre_cons + 1
        /\ consolidations[Len(consolidations)].notes_before_count
              = CountTotalNotes(last.appended)
        /\ consolidations[Len(consolidations)].notes_after_count
              = CountTotalNotes(profile)

VersionMoves ==
    /\ HasProfile(profile) =>
          /\ HasProfile(profile')
          /\ profile'.memory_version >= profile.memory_version
          /\ profile'.memory_version # profile.memory_version =>
                (last'.cons.ran /\ last' # last)
    /\ (~HasProfile(profile) /\ HasProfile(profile')) =>
          (profile'.memory_version # NewProfile(0).memory_version =>
              last'.cons.ran)
    /\ Len(consolidations') # Len(consolidations) =>
          (last'.cons.ran /\ last'.cons.success)

----------------------------------------------------------------------------
(* Properties of the apply and the log of a consolidation run.             *)

\* the profile holds the plan's collections and the incremented version
AppliedState ==
    /\ profile = consRun.profile
    /\ profile.memory_version = consRun.pre.memory_version + 1

NoRecordOfRun == consolidations = consRun.pre_cons

\* the process died after the apply and before the record was written
CrashedBetween ==
    consRun.pc = "crashed" /\ consRun.at = "applied"

\* the count between the apply and the log raised, and the caller committed
FailedBetween ==
    consRun.pc = "committed" /\ consRun.applied /\ ~consRun.success

\* C25: the apply of the consolidated profile and the write of the
\* ConsolidationRecord are two independent writes with no shared
\* transaction: a crash or a failure between them leaves a committed state
\* in which the collections are consolidated and memory_version is
\* incremented but no ConsolidationRecord of the run exists.
C25_ApplyAndLogIndependent ==
    (CrashedBetween \/ FailedBetween) => (AppliedState /\ NoRecordOfRun)

\* C25, amended: the apply and the record are pending changes of one session
\* and reach the store only with the caller's single commit; a crash before
\* that commit leaves the profile and the history as they were, and a
\* failure between the two that the run catches is followed by the commit
\* of the applied profile without a record.
C25_ApplyAndLogShareCommit ==
    /\ consRun.pc = "crashed" =>
          (profile = consRun.pre /\ consolidations = consRun.pre_cons)
    /\ consRun.pc \in {"applied", "returned"} =>
          (profile = consRun.pre /\ consolidations = consRun.pre_cons)
    /\ FailedBetween => (AppliedState /\ NoRecordOfRun)
    /\ (consRun.pc = "committed" /\ consRun.success) =>
          (AppliedState /\ Len(consolidations) = Len(consRun.pre_cons) + 1)

\* the process died between the apply and the log
C25_Witness ==
    /\ CrashedBetween
    /\ consRun.profile # consRun.pre
    /\ consRun.profile.memory_version = consRun.pre.memory_version + 1

----------------------------------------------------------------------------
(* Properties of the shared embedding handle.                              *)

OneHandle ==
    /\ built <= 1
    /\ \A t \in Threads :
          /\ ctors[t].pc = "build" => embedderLock = t
          /\ ctors[t].pc = "done" =>
                (ctors[t].embedder = sharedEmbedder /\ sharedEmbedder # 0)

HandleWrittenOnce ==
    sharedEmbedder' # sharedEmbedder =>
        (sharedEmbedder = 0 /\ embedderLock # 0 /\ built = 0)

\* C26: under every interleaving of threads that construct a
\* MemoryConsolidator concurrently, the process-wide embedding handle is
\* constructed at most once, behind the mutex, every instance ends up
\* holding that same handle, and after the first construction no thread
\* writes the shared handle again.
C26_SharedEmbedderBuiltOnce == []OneHandle /\ [][HandleWrittenOnce]_vars

\* all threads passed the unlocked test before any of them built the handle,
\* and all instances are constructed
C26_Witness ==
    /\ \A t \in Threads : ctors[t].pc = "done" /\ ctors[t].locked
    /\ built = 1

----------------------------------------------------------------------------
(* Properties of the background memory update of an elaboration stream.    *)

WorkerStarted == worker.pc # "none"

WorkerEnded == worker.pc \in {"done", "failed"}

WorkerConfined ==
    /\ WorkerStarted =>
          (stream.pc = "finished" /\ stream.user_id # "none"
           /\ worker.user_id = stream.user_id)
    /\ WorkerEnded =>
          /\ worker.session \in {"none", "closed"}
          /\ worker.session = "none" => worker.runs = 0
    /\ WorkerStarted => worker.runs <= 1
    /\ WorkerStarted =>
          worker.logged = (IF worker.pc = "failed" THEN 1 ELSE 0)

CallerUntouched ==
    (WorkerStarted \/ stream.pc = "finished") => stream' = stream

\* C27: the memory-update worker of an elaboration request is started only
\* after the stream has yielded its last chunk and only when a user_id was
\* given; it runs on its own storage session, which it closes on every path
\* including failure; a failure inside the worker is logged only, is never
\* retried, and never changes or interrupts what the caller received.
C27_WorkerAfterStreamOnly ==
    /\ []WorkerConfined
    /\ [][CallerUntouched]_vars
    /\ ((worker.session = "open") ~> (worker.session = "closed"))

\* the worker failed after the caller had received the whole stream
C27_Witness ==
    /\ worker.pc = "failed"
    /\ worker.session = "closed"
    /\ stream.pc = "finished"
    /\ Len(stream.received) = MaxChunks

----------------------------------------------------------------------------
(* Properties of the Duplicate Filter across a batch.                      *)

\* no consolidation plan has been applied to the profile
NoPlanApplied ==
    /\ HasProfile(profile)
    /\ consolidations = <<>>
    /\ profile.memory_version = NewProfile(0).memory_version

\* C28: after any sequence of analyze_interaction calls with no
\* consolidation run in between, no collection of the profile holds two
\* notes whose similarity exceeds the 0.6 duplicate threshold, two notes
\* that arrived as candidates of one extraction batch included.
C28_NoSimilarPairStored ==
    NoPlanApplied =>
        \A ty \in NoteTypes :
            \A i, j \in 1..Len(profile[ty]) :
                i # j =>
                    CosineSimilarity(profile[ty][i].content,
                                     profile[ty][j].content)
                        <= SIMILARITY_THRESHOLD

----------------------------------------------------------------------------
(* Properties of the Consolidation Policy after a run.                     *)

\* C29: immediately after a consolidate_user_memory run returns success,
\* should_trigger_consolidation evaluated on the resulting, unchanged
\* profile returns false, so that successive appends by one user do not
\* start a consolidation run on every append.
C29_NoTriggerRightAfterRun ==
    (CommittedRun /\ last.at = now) =>
        ~ShouldTriggerConsolidation(profile, consolidations, now)

----------------------------------------------------------------------------
(* Properties of what analyze_interaction reports as added.                *)

\* the notes the processed Event of the latest call records as added
EventNotesAdded == events[Len(events)].notes_added

\* a candidate with the content of n is in the collection its type names
StoredUnderOwnType(n) ==
    /\ NoteTypeOf(n) \in NoteTypes
    /\ \E i \in 1..Len(profile[NoteTypeOf(n)]) :
          profile[NoteTypeOf(n)][i].content = n.content

\* the latest call committed without a consolidation run
CommittedAppend ==
    /\ Called
    /\ last.outcome = "ok"
    /\ ~last.cons.ran

\* C30: every note that analyze_interaction reports in notes_added of its
\* result and records in notes_added of the processed Event is, once the
\* call has committed, stored in the collection named by its note_type; a
\* candidate whose note_type is none of the five collection names is never
\* reported as added, does not increment total_interactions and gets no
\* NoteEmbedding row.
C30_ReportedNotesAreStored ==
    CommittedAppend =>
        /\ EventNotesAdded = last.result.notes_added
        /\ \A i \in 1..Len(last.result.notes_added) :
              StoredUnderOwnType(last.result.notes_added[i])
        /\ \A i \in 1..Len(last.extraction.new_notes) :
              NoteTypeOf(last.extraction.new_notes[i]) \notin NoteTypes =>
                  /\ \A j \in 1..Len(last.result.notes_added) :
                        last.result.notes_added[j]
                            # last.extraction.new_notes[i]
                  /\ \A j \in 1..Len(noteIndex) :
                        noteIndex[j].note_type
                            # NoteTypeOf(last.extraction.new_notes[i])

====
